---- MODULE Spec2Model ----
(***************************************************************************)
(* Signal-generation and backtesting pipeline of the crypto technical      *)
(* analysis bot: the bar-by-bar position simulator of                      *)
(* bot/backtest/engine.py and the strategy orchestration of                *)
(* bot/engine/orchestrator.py.                                             *)
(*                                                                         *)
(* Prices are positive integers (ticks).  Returns, equity and the          *)
(* aggregate metrics are exact rationals <<numerator, denominator>> in     *)
(* lowest terms with a positive denominator; Python's float rounding is    *)
(* not modelled.                                                           *)
(***************************************************************************)
EXTENDS Integers, Sequences, FiniteSets, TLC

(* ------------------------------ bounds -------------------------------- *)
\* most bars left after add_basic_indicators + dropna in a modelled run
MaxBars == 2
\* most leading rows dropna removes in a modelled run
MaxDropped == 1
\* prices range over 1..MaxPrice
MaxPrice == 2

Prices == 1..MaxPrice

(* --------------------------- rational numbers -------------------------- *)
Abs(x) == IF x < 0 THEN -x ELSE x

Min(a, b) == IF a <= b THEN a ELSE b

RECURSIVE GCD(_, _)
GCD(a, b) == IF b = 0 THEN a ELSE GCD(b, a % b)

\* the rational n/d (d # 0) in lowest terms, denominator positive
Frac(n, d) ==
    LET g == GCD(Abs(n), Abs(d))
        s == IF d < 0 THEN -1 ELSE 1
    IN  <<(s * n) \div g, (s * d) \div g>>

Zero == Frac(0, 1)
One == Frac(1, 1)
FAdd(a, b) == Frac(a[1] * b[2] + b[1] * a[2], a[2] * b[2])
FSub(a, b) == Frac(a[1] * b[2] - b[1] * a[2], a[2] * b[2])
FMul(a, b) == Frac(a[1] * b[1], a[2] * b[2])
FDiv(a, b) == Frac(a[1] * b[2], a[2] * b[1])
FLess(a, b) == a[1] * b[2] < b[1] * a[2]
FLeq(a, b) == a[1] * b[2] <= b[1] * a[2]
FMax(a, b) == IF FLess(a, b) THEN b ELSE a
FAbs(a) == <<Abs(a[1]), a[2]>>

RECURSIVE FSum(_)
FSum(s) == IF s = <<>> THEN Zero ELSE FAdd(s[1], FSum(Tail(s)))

(* ------------------------------ data model ----------------------------- *)
\* Python's Optional[T]: None is the empty sequence, a value x is <<x>>
None == <<>>
Some(x) == <<x>>
Optional(S) == {None} \cup {Some(x) : x \in S}

TradeAction == {"BUY", "SELL", "NO_TRADE"}

\* one cleaned OHLC row as the simulator reads it (high, low, close)
Bars == {r \in [high : Prices, low : Prices, close : Prices] :
            r.low <= r.close /\ r.close <= r.high}

\* the fields of a TradeSignal the simulator reads; take_profits is the
\* (possibly empty) list of targets, of which only the first is used
TradeSignal ==
    [action : {"BUY", "SELL"},
     stop_loss : Optional(Prices),
     take_profits : {<<>>} \cup {<<p>> : p \in Prices}]
    \cup [action : {"NO_TRADE"}, stop_loss : {None}, take_profits : {<<>>}]

\* what strategy.generate_signal may return: a signal or None
StrategyOutput == Optional(TradeSignal)

\* an open position of the simulator
Positions ==
    [direction : {1, -1}, entry_price : Prices,
     take_profit : Optional(Prices), stop_loss : Optional(Prices)]

VARIABLES
    pc,            \* "start", "loop", "done" or "error" (ValueError raised)
    n,             \* number of rows of candles after dropna
    dropped,       \* number of leading rows dropna removed
    k,             \* position of the next row the loop processes, 0-based
    close,         \* close of the row processed last
    histLen,       \* number of rows of the history passed for that row
    fullSig,       \* the strategy's output on the whole frame, once asked
    position,      \* None or the open position
    trades,        \* list of per-trade returns
    equity, peak_equity, max_drawdown,
    entries,       \* log of the positions opened: [bar, price, direction]
    exits,         \* log of the closes: [bar, price, forced]
    result,        \* None or the BacktestResult
    observe,       \* whether the run records the inputs of its last bar
    obs            \* None or [position, row, signal] of the last bar

btvars == <<pc, n, dropped, k, close, histLen, fullSig, position, trades,
            equity, peak_equity, max_drawdown, entries, exits, result,
            observe, obs>>

VARIABLES
    epc,                 \* "start", "strategies", "done" or "raised"
    use_mock, limit, enabled_strategies,    \* arguments of generate_signal
    fetch,               \* what the data step did: [kind, rows]
    rows,                \* len(df) once the data step is over
    price,               \* close of the last row of df, if it was computed
    regime,
    strategies,          \* the strategies left to invoke, in order
    calls,               \* log of the strategy calls: [name, outcome]
    best_signal,
    ret                  \* the value generate_signal returned

engvars == <<epc, use_mock, limit, enabled_strategies, fetch, rows, price,
             regime, strategies, calls, best_signal, ret>>

VARIABLES
    apc,           \* "idle", "running" or "responded"
    strategy,      \* the strategy parameter of the backtest request
    response,      \* None or the HTTP status the handler answered with
    backtests      \* the backtest records log_backtest persisted

apivars == <<apc, strategy, response, backtests>>

VARIABLES
    cpc,           \* "idle", "start" or "done"
    df,            \* the bar window passed to compute_trend_direction
    ema20_slope, ema50_slope,
    detected       \* None or the regime returned

clsvars == <<cpc, df, ema20_slope, ema50_slope, detected>>

VARIABLES
    spc,           \* "idle", "start", "returned", "raised" or "answered"
    sname,         \* the signal source that is called
    sregime,       \* the regime passed to it
    sdf,           \* the frame passed to it
    proposal,      \* None or the TradeSignal it returned
    signal         \* None or the TradeSignal the API handler answers with

sgvars == <<spc, sname, sregime, sdf, proposal, signal>>

VARIABLES
    registry,      \* the shared registry: regime -> list of strategy names
    instances,     \* the attributes of the shared strategy instances
    inv            \* the local state of each concurrent invocation

ccvars == <<registry, instances, inv>>

vars == <<btvars, engvars, apivars, clsvars, sgvars, ccvars>>

(* ------------------------- Backtester.run_backtest --------------------- *)
\* rows of candles.iloc[: idx + 1]: positional slice of a frame of n rows
IlocUpTo(idx) == Min(idx + 1, n)

\* label iterrows yields for the row at position p: dropna keeps the
\* labels of the RangeIndex load_candles produced
IndexLabel(p) == dropped + p

\* the local state of run_backtest that close_position and the loop update
Book == [position |-> position, trades |-> trades, equity |-> equity,
         peak_equity |-> peak_equity, max_drawdown |-> max_drawdown,
         entries |-> entries, exits |-> exits]

\* a bug close_position could have: the running peak never raised
ClosePositionStalePeak(b, exit_price, bar, forced) ==
    IF b.position = None THEN b
    ELSE
      LET pos == b.position[1]
          pct_return == Frac((exit_price - pos.entry_price) * pos.direction,
                             pos.entry_price)
          eq == FMul(b.equity, FAdd(One, pct_return))
          peak == b.peak_equity
          drawdown == FDiv(FSub(peak, eq), peak)
      IN  [b EXCEPT !.position = None,
                    !.trades = Append(b.trades, pct_return),
                    !.equity = eq,
                    !.max_drawdown = FMax(b.max_drawdown, drawdown),
                    !.exits = Append(b.exits, [bar |-> bar,
                                               price |-> exit_price,
                                               forced |-> forced])]

close_position(b, exit_price, bar, forced) ==
    IF b.position = None THEN b
    ELSE
      LET pos == b.position[1]
          pct_return == Frac((exit_price - pos.entry_price) * pos.direction,
                             pos.entry_price)
          eq == FMul(b.equity, FAdd(One, pct_return))
          peak == FMax(b.peak_equity, eq)
          drawdown == FDiv(FSub(peak, eq), peak)
          mdd == IF FLess(Zero, peak) THEN FMax(b.max_drawdown, drawdown)
                 ELSE b.max_drawdown
      IN  [b EXCEPT !.position = None,
                    !.trades = Append(b.trades, pct_return),
                    !.equity = eq,
                    !.peak_equity = peak,
                    !.max_drawdown = mdd,
                    !.exits = Append(b.exits, [bar |-> bar,
                                               price |-> exit_price,
                                               forced |-> forced])]

\* a bug the exit priority could have: take-profit tested before stop-loss
ExitPriceTakeProfitFirst(pos, r, sig) ==
    IF pos.direction = 1
    THEN IF pos.take_profit # None /\ r.high >= pos.take_profit[1]
         THEN pos.take_profit
         ELSE IF pos.stop_loss # None /\ r.low <= pos.stop_loss[1]
              THEN pos.stop_loss
         ELSE IF sig # None /\ sig[1].action = "SELL" THEN Some(r.close)
         ELSE None
    ELSE IF pos.take_profit # None /\ r.low <= pos.take_profit[1]
         THEN pos.take_profit
         ELSE IF pos.stop_loss # None /\ r.high >= pos.stop_loss[1]
              THEN pos.stop_loss
         ELSE IF sig # None /\ sig[1].action = "BUY" THEN Some(r.close)
         ELSE None

\* exit price the per-bar checks choose for an open position, or None
ExitPrice(pos, r, sig) ==
    IF pos.direction = 1
    THEN IF pos.stop_loss # None /\ r.low <= pos.stop_loss[1]
         THEN pos.stop_loss
         ELSE IF pos.take_profit # None /\ r.high >= pos.take_profit[1]
              THEN pos.take_profit
         ELSE IF sig # None /\ sig[1].action = "SELL" THEN Some(r.close)
         ELSE None
    ELSE IF pos.stop_loss # None /\ r.high >= pos.stop_loss[1]
         THEN pos.stop_loss
         ELSE IF pos.take_profit # None /\ r.low <= pos.take_profit[1]
              THEN pos.take_profit
         ELSE IF sig # None /\ sig[1].action = "BUY" THEN Some(r.close)
         ELSE None

\* the "if position:" block of the loop body
ExitStep(b, r, sig, bar) ==
    IF b.position # None /\ ExitPrice(b.position[1], r, sig) # None
    THEN close_position(b, ExitPrice(b.position[1], r, sig)[1], bar, FALSE)
    ELSE b

\* a bug the entry guard could have: a signal in the direction of the open
\* position opens again, re-pricing it
OpensOrReprices(b, sig) ==
    /\ sig # None
    /\ sig[1].action \in {"BUY", "SELL"}
    /\ \/ b.position = None
       \/ b.position[1].direction = IF sig[1].action = "BUY" THEN 1 ELSE -1

\* a bug the entry guard could have: "position is None" not tested
OpensWhileOpen(b, sig) ==
    sig # None /\ sig[1].action \in {"BUY", "SELL"}

\* whether the loop body opens a position after the exit block
Opens(b, sig) ==
    b.position = None /\ sig # None /\ sig[1].action \in {"BUY", "SELL"}

NewPosition(r, sig) ==
    [direction |-> IF sig[1].action = "BUY" THEN 1 ELSE -1,
     entry_price |-> r.close,
     take_profit |-> IF sig[1].take_profits # <<>>
                     THEN Some(sig[1].take_profits[1])
                     ELSE None,
     stop_loss |-> sig[1].stop_loss]

\* the entry block of the loop body
EntryStep(b, r, sig, bar) ==
    IF Opens(b, sig)
    THEN [b EXCEPT !.position = Some(NewPosition(r, sig)),
                   !.entries = Append(b.entries,
                                      [bar |-> bar, price |-> r.close,
                                       direction |->
                                           NewPosition(r, sig).direction])]
    ELSE b

\* a bug the loop could have: the entry block ahead of the exit block
LoopBodyEntryFirst(b, r, sig, bar) ==
    ExitStep(EntryStep(b, r, sig, bar), r, sig, bar)

\* a bug the loop could have: the entry block as the else of the exit block
LoopBodyExitOrEntry(b, r, sig, bar) ==
    IF b.position # None THEN ExitStep(b, r, sig, bar)
    ELSE EntryStep(b, r, sig, bar)

\* a bug the loop could have: the final close indented into the loop body
LoopBodyClosesEveryBar(b, r, sig, bar) ==
    close_position(EntryStep(ExitStep(b, r, sig, bar), r, sig, bar),
                   r.close, bar, TRUE)

\* the loop body after the strategy call: exit block, then entry block
LoopBody(b, r, sig, bar) == EntryStep(ExitStep(b, r, sig, bar), r, sig, bar)

\* a bug the prologue could have: the empty check left out
LoadCandlesNoEmptyCheck ==
    /\ pc = "start"
    /\ \E left \in 0..MaxBars, d \in 0..MaxDropped :
         /\ n' = left
         /\ dropped' = d
         /\ pc' = "loop"
    /\ UNCHANGED <<k, close, histLen, fullSig, position, trades, equity,
                   peak_equity, max_drawdown, entries, exits, result,
                   observe, obs>>
    /\ UNCHANGED <<engvars, apivars, clsvars, sgvars, ccvars>>

\* load_candles, add_basic_indicators, dropna and the empty check
LoadCandles ==
    /\ pc = "start"
    /\ \E left \in 0..MaxBars, d \in 0..MaxDropped :
         /\ n' = left
         /\ dropped' = d
         /\ pc' = IF left = 0 THEN "error" ELSE "loop"
    /\ UNCHANGED <<k, close, histLen, fullSig, position, trades, equity,
                   peak_equity, max_drawdown, entries, exits, result,
                   observe, obs>>
    /\ UNCHANGED <<engvars, apivars, clsvars, sgvars, ccvars>>

\* what strategy.generate_signal(history, ...) may return on a history of h
\* rows: the strategy is a function of its input, so it repeats itself on
\* the whole frame
StrategyOn(h) ==
    IF h = n /\ fullSig # None THEN {fullSig[1]} ELSE StrategyOutput

\* one iteration of "for idx, row in candles.iterrows()"
ProcessBar ==
    /\ pc = "loop"
    /\ k < n
    /\ \E r \in Bars, sig \in StrategyOn(IlocUpTo(IndexLabel(k))) :
       \E h \in {IlocUpTo(IndexLabel(k))}, b1 \in {LoopBody(Book, r, sig, k)} :
             /\ fullSig' = IF h = n THEN Some(sig) ELSE fullSig
             /\ close' = r.close
             /\ histLen' = h
             /\ position' = b1.position
             /\ trades' = b1.trades
             /\ equity' = b1.equity
             /\ peak_equity' = b1.peak_equity
             /\ max_drawdown' = b1.max_drawdown
             /\ entries' = b1.entries
             /\ exits' = b1.exits
             /\ obs' = IF observe
                       THEN Some([position |-> position, row |-> r,
                                  signal |-> sig])
                       ELSE None
    /\ k' = k + 1
    /\ UNCHANGED <<pc, n, dropped, result, observe>>
    /\ UNCHANGED <<engvars, apivars, clsvars, sgvars, ccvars>>

\* detect_regime or strategy.generate_signal raises inside the loop (an
\* IndexError of a strategy on a short history, say): run_backtest has no
\* handler, so the exception ends the run
StrategyRaises ==
    /\ pc = "loop"
    /\ k < n
    /\ \E h \in {IlocUpTo(IndexLabel(k))} :
         /\ ~(h = n /\ fullSig # None)
         /\ histLen' = h
    /\ pc' = "raised"
    /\ UNCHANGED <<n, dropped, k, close, fullSig, position, trades, equity,
                   peak_equity, max_drawdown, entries, exits, result,
                   observe, obs>>
    /\ UNCHANGED <<engvars, apivars, clsvars, sgvars, ccvars>>

\* a bug the win count could have: break-even trades counted as wins
WinsCountingBreakEven(ts) ==
    Cardinality({i \in 1..Len(ts) : FLeq(Zero, ts[i])})

Wins(ts) == Cardinality({i \in 1..Len(ts) : FLess(Zero, ts[i])})
GrossProfit(ts) == FSum(SelectSeq(ts, LAMBDA t : FLess(Zero, t)))
GrossLoss(ts) == FAbs(FSum(SelectSeq(ts, LAMBDA t : FLess(t, Zero))))

win_rate(ts) == IF Len(ts) # 0 THEN Frac(Wins(ts) * 100, Len(ts)) ELSE Zero

\* float("inf")
Inf == <<1, 0>>

\* a bug the profit factor could have: the no-loss case not told apart
ProfitFactorNoInf(ts) ==
    IF FLess(Zero, GrossLoss(ts)) THEN FDiv(GrossProfit(ts), GrossLoss(ts))
    ELSE Zero

profit_factor(ts) ==
    IF FLess(Zero, GrossLoss(ts)) THEN FDiv(GrossProfit(ts), GrossLoss(ts))
    ELSE IF FLess(Zero, GrossProfit(ts)) THEN Inf
    ELSE Zero

\* a bug the end of the run could have: the open position left open
FinalCloseSkipped(b) == b

\* "Close any open position at the final close"
FinalClose(b) ==
    IF b.position # None THEN close_position(b, close, n - 1, TRUE) ELSE b

\* the code after the loop: forced final close and the aggregate metrics
Finish ==
    /\ pc = "loop"
    /\ k = n
    /\ \E b1 \in {FinalClose(Book)} :
           /\ position' = b1.position
           /\ trades' = b1.trades
           /\ equity' = b1.equity
           /\ peak_equity' = b1.peak_equity
           /\ max_drawdown' = b1.max_drawdown
           /\ entries' = b1.entries
           /\ exits' = b1.exits
           /\ result' = Some([win_rate |-> win_rate(b1.trades),
                              total_return_pct |->
                                  FMul(FSub(b1.equity, One), Frac(100, 1)),
                              max_drawdown_pct |->
                                  FMul(b1.max_drawdown, Frac(100, 1)),
                              profit_factor |-> profit_factor(b1.trades),
                              trades_count |-> Len(b1.trades)])
    /\ pc' = "done"
    /\ UNCHANGED <<n, dropped, k, close, histLen, fullSig, observe, obs>>
    /\ UNCHANGED <<engvars, apivars, clsvars, sgvars, ccvars>>

\* the state when run_backtest is called
BtInit ==
    /\ pc = "start"
    /\ n = 0
    /\ dropped = 0
    /\ k = 0
    /\ close = 0
    /\ histLen = 0
    /\ fullSig = None
    /\ position = None
    /\ trades = <<>>
    /\ equity = One
    /\ peak_equity = One
    /\ max_drawdown = Zero
    /\ entries = <<>>
    /\ exits = <<>>
    /\ result = None
    /\ observe = FALSE
    /\ obs = None

\* a run about to process its final bar with a position opened on the bar
\* before and nothing closed yet; the inputs of the final bar are recorded
ExitInit ==
    /\ pc = "loop"
    /\ n \in 2..MaxBars
    /\ dropped = 0
    /\ k = n - 1
    /\ histLen = n - 1
    /\ fullSig = None
    /\ \E pos \in Positions :
         /\ position = Some(pos)
         /\ close = pos.entry_price
         /\ entries = <<[bar |-> n - 2, price |-> pos.entry_price,
                         direction |-> pos.direction]>>
    /\ trades = <<>>
    /\ equity = One
    /\ peak_equity = One
    /\ max_drawdown = Zero
    /\ exits = <<>>
    /\ result = None
    /\ observe = TRUE
    /\ obs = None

\* the books of a run that has processed nothing
EmptyBook ==
    [position |-> None, trades |-> <<>>, equity |-> One, peak_equity |-> One,
     max_drawdown |-> Zero, entries |-> <<>>, exits |-> <<>>]

\* bars of the runs followed through two closed trades: entry, exit with
\* re-entry, exit
EquityBars == 3

\* a run of EquityBars bars that has processed its first two, the strategy
\* having emitted one of firstSignals on the first: its first trade was
\* closed on the second bar and a position opened again on it; watch tells
\* whether the inputs of the bars to come are recorded
AfterTwoBars(firstSignals, watch) ==
    /\ pc = "loop"
    /\ n = EquityBars
    /\ dropped = 0
    /\ k = 2
    /\ histLen = 2
    /\ fullSig = None
    /\ \E r0 \in Bars, r1 \in Bars,
          sig0 \in firstSignals, sig1 \in StrategyOutput :
         \E b \in {LoopBody(LoopBody(EmptyBook, r0, sig0, 0), r1, sig1, 1)} :
            /\ Len(b.trades) = 1
            /\ b.position # None
            /\ close = r1.close
            /\ position = b.position
            /\ trades = b.trades
            /\ equity = b.equity
            /\ peak_equity = b.peak_equity
            /\ max_drawdown = b.max_drawdown
            /\ entries = b.entries
            /\ exits = b.exits
    /\ result = None
    /\ observe = watch
    /\ obs = None

\* the runs followed through their second trade, whatever closed the first
EquityInit == AfterTwoBars(StrategyOutput, FALSE)

\* signals that carry neither stop nor target
BareSignals ==
    {sig \in StrategyOutput :
        sig # None /\ sig[1].stop_loss = None /\ sig[1].take_profits = <<>>}

\* the runs watched on their third bar: the first position, without stop or
\* target, was reversed by the opposing signal on the second bar
HoldInit == AfterTwoBars(BareSignals, TRUE)

(* ------------------------ compute_trend_direction ---------------------- *)
\* longest bar window modelled
MaxWindow == 121

\* the windows compute_trend_direction and _ema_slope cut
RecentWindow == 120
Ema20SlopeWindow == 25
Ema50SlopeWindow == 35
RangeWindow == 60
MinRangeBars == 20

\* series.tail(w): the last w elements, all of them if there are fewer
SeqTail(series, w) ==
    IF Len(series) > w
    THEN SubSeq(series, Len(series) - w + 1, Len(series))
    ELSE series

\* df[field] as a series
Column(d, field) == [i \in 1..Len(d) |-> d[i][field]]

SeqMax(series) ==
    CHOOSE x \in {series[i] : i \in DOMAIN series} :
        \A i \in DOMAIN series : series[i] <= x
SeqMin(series) ==
    CHOOSE x \in {series[i] : i \in DOMAIN series} :
        \A i \in DOMAIN series : x <= series[i]

RECURSIVE SeqSum(_)
SeqSum(series) ==
    IF series = <<>> THEN 0 ELSE Head(series) + SeqSum(Tail(series))

SeqMean(series) == Frac(SeqSum(series), Len(series))

\* a / max(x, 1e-9) for a >= 0.  Model values are integers and means of at
\* most RangeWindow integers, so a positive x exceeds 1e-9, and a positive a
\* over 1e-9 exceeds every threshold it is compared with: it is Inf
OverFloored(a, x) ==
    IF FLess(Zero, x) THEN FDiv(a, x)
    ELSE IF a = Zero THEN Zero
    ELSE Inf

\* a bug the slope could have: 0 whenever the series is shorter than the
\* lookback
EmaSlopeZeroWhenShort(series, window) ==
    IF Len(series) < window THEN Zero
    ELSE IF series[Len(series) - window + 1] = 0 THEN Zero
    ELSE Frac(series[Len(series)] - series[Len(series) - window + 1],
              series[Len(series) - window + 1])

_ema_slope(series, window) ==
    LET tail == SeqTail(series, window)
    IN  IF Len(tail) < 2 THEN Zero
        ELSE IF tail[1] = 0 THEN Zero
        ELSE Frac(tail[Len(tail)] - tail[1], tail[1])

\* a bug the up-trend test could have: the close not compared
TrendUpIgnoringClose(last, s20, s50) ==
    /\ last.ema20 > last.ema50 /\ last.ema50 > last.ema200
    /\ FLess(Frac(15, 10000), s20)
    /\ FLess(Frac(5, 10000), s50)

\* stacked_up and ema20_slope > 0.0015 and ema50_slope > 0.0005 and
\* close > ema20
TrendUp(last, s20, s50) ==
    /\ last.ema20 > last.ema50 /\ last.ema50 > last.ema200
    /\ FLess(Frac(15, 10000), s20)
    /\ FLess(Frac(5, 10000), s50)
    /\ last.close > last.ema20

\* stacked_down and ema20_slope < -0.0015 and ema50_slope < -0.0005 and
\* close < ema20
TrendDown(last, s20, s50) ==
    /\ last.ema20 < last.ema50 /\ last.ema50 < last.ema200
    /\ FLess(s20, Frac(-15, 10000))
    /\ FLess(s50, Frac(-5, 10000))
    /\ last.close < last.ema20

\* a bug the range test could have: more than MinRangeBars closes required
RangeBoundMoreThanMin(recent, last, s20, s50) ==
    LET recent_closes == SeqTail(Column(recent, "close"), RangeWindow)
        pct_range == OverFloored(
                        Frac(SeqMax(recent_closes) - SeqMin(recent_closes), 1),
                        SeqMean(recent_closes))
        close_to_ema == OverFloored(Frac(Abs(last.close - last.ema50), 1),
                                    Frac(last.ema50, 1))
    IN  /\ Len(recent_closes) > MinRangeBars
        /\ FLess(FAbs(s20), Frac(1, 1000))
        /\ FLess(FAbs(s50), Frac(8, 10000))
        /\ FLess(pct_range, Frac(5, 100))
        /\ FLess(close_to_ema, Frac(2, 100))

\* the range test: at least MinRangeBars closes, small slopes, compressed
\* closes, close near ema50
RangeBound(recent, last, s20, s50) ==
    LET recent_closes == SeqTail(Column(recent, "close"), RangeWindow)
        pct_range == OverFloored(
                        Frac(SeqMax(recent_closes) - SeqMin(recent_closes), 1),
                        SeqMean(recent_closes))
        close_to_ema == OverFloored(Frac(Abs(last.close - last.ema50), 1),
                                    Frac(last.ema50, 1))
    IN  /\ Len(recent_closes) >= MinRangeBars
        /\ FLess(FAbs(s20), Frac(1, 1000))
        /\ FLess(FAbs(s50), Frac(8, 10000))
        /\ FLess(pct_range, Frac(5, 100))
        /\ FLess(close_to_ema, Frac(2, 100))

\* df.tail(120) if len(df) > 120 else df
Recent(d) == IF Len(d) > RecentWindow THEN SeqTail(d, RecentWindow) ELSE d

\* a bug the last return could have: "otherwise: choppy/unknown" as UNKNOWN
TrendDirectionUnknownDefault(d) ==
    LET recent == Recent(d)
        last == recent[Len(recent)]
        s20 == _ema_slope(Column(recent, "ema20"), Ema20SlopeWindow)
        s50 == _ema_slope(Column(recent, "ema50"), Ema50SlopeWindow)
    IN  IF TrendUp(last, s20, s50) THEN "TREND_UP"
        ELSE IF TrendDown(last, s20, s50) THEN "TREND_DOWN"
        ELSE IF RangeBound(recent, last, s20, s50) THEN "RANGE"
        ELSE "UNKNOWN"

compute_trend_direction(d) ==
    LET recent == Recent(d)
        last == recent[Len(recent)]
        s20 == _ema_slope(Column(recent, "ema20"), Ema20SlopeWindow)
        s50 == _ema_slope(Column(recent, "ema50"), Ema50SlopeWindow)
    IN  IF TrendUp(last, s20, s50) THEN "TREND_UP"
        ELSE IF TrendDown(last, s20, s50) THEN "TREND_DOWN"
        ELSE IF RangeBound(recent, last, s20, s50) THEN "RANGE"
        ELSE "CHOPPY"

\* detect_regime(df)
detect_regime(d) == compute_trend_direction(d)

\* the last row of the windows modelled
LastRows ==
    [close : {1995, 2005, 2100},
     ema20 : {1996, 1997, 2000, 2002, 2003, 2004},
     ema50 : {1998, 1999, 2000, 2001, 2002},
     ema200 : {1990, 2010}]

\* the older rows of the windows modelled
OldRows ==
    [close : {1900, 2000}, ema20 : {0, 2000}, ema50 : {0, 2000},
     ema200 : {2000}]

\* the window lengths modelled: around each length the code tests
WindowLengths ==
    {1, 2, MinRangeBars - 1, MinRangeBars, Ema20SlopeWindow + 1,
     Ema50SlopeWindow + 1, RangeWindow + 1, MaxWindow}

\* for a window of len rows, the numbers of older rows modelled: none, all
\* but the last, and those ending next to the start of each tail
OldCounts(len) ==
    {j \in {0, len - 1, len - Ema20SlopeWindow, len - Ema20SlopeWindow + 1,
            len - Ema50SlopeWindow, len - Ema50SlopeWindow + 1,
            len - RangeWindow, len - RangeWindow + 1} : 0 <= j /\ j < len}

\* a window of len rows: j older rows equal to old, then rows equal to last
Window(len, j, old, last) ==
    [i \in 1..len |-> IF i <= j THEN old ELSE last]

\* compute_trend_direction on the window df
DetectRegime ==
    /\ cpc = "start"
    /\ ema20_slope' = _ema_slope(Column(Recent(df), "ema20"),
                                 Ema20SlopeWindow)
    /\ ema50_slope' = _ema_slope(Column(Recent(df), "ema50"),
                                 Ema50SlopeWindow)
    /\ detected' = Some(detect_regime(df))
    /\ cpc' = "done"
    /\ UNCHANGED df
    /\ UNCHANGED <<btvars, engvars, apivars, sgvars, ccvars>>

\* the classifier about to be called on a window
ClsInit ==
    /\ cpc = "start"
    /\ \E len \in WindowLengths :
       \E j \in OldCounts(len), old \in OldRows, last \in LastRows :
           df = Window(len, j, old, last)
    /\ ema20_slope = Zero
    /\ ema50_slope = Zero
    /\ detected = None

(* ------------------------- GET /backtest handler ----------------------- *)
\* the keys of STRATEGY_MAP
STRATEGY_MAP == {"TrendContinuation", "RangeReversion"}

\* strategy names a request may carry
StrategyNames == STRATEGY_MAP \cup {"NoSuchStrategy"}

\* the handler up to the call of backtester.run_backtest: an unknown
\* strategy name is answered with 400
ApiBacktest ==
    /\ apc = "idle"
    /\ \E name \in StrategyNames :
         /\ strategy' = name
         /\ IF name \notin STRATEGY_MAP
            THEN apc' = "responded" /\ response' = Some(400)
            ELSE apc' = "running" /\ response' = None
    /\ UNCHANGED backtests
    /\ UNCHANGED <<btvars, engvars, clsvars, sgvars, ccvars>>

\* the handler after run_backtest: ValueError becomes 400, any other
\* exception is not caught (500), a result is persisted and returned
ApiRespond ==
    /\ apc = "running"
    /\ pc \in {"error", "raised", "done"}
    /\ IF pc = "error" THEN response' = Some(400) /\ UNCHANGED backtests
       ELSE IF pc = "raised" THEN response' = Some(500) /\ UNCHANGED backtests
       ELSE /\ backtests' = Append(backtests, result[1])
            /\ response' = Some(200)
    /\ apc' = "responded"
    /\ UNCHANGED strategy
    /\ UNCHANGED <<btvars, engvars, clsvars, sgvars, ccvars>>

(* ---------------------- SignalEngine.generate_signal ------------------- *)
\* window of the longest moving average add_basic_indicators computes; its
\* first EmaLongWindow - 1 values are undefined, and dropna removes the rows
EmaLongWindow == 200

\* rows a strategy reads back from the end: iloc[-8] and iloc[-13]
Ema20SlopeLag == 8
Ema50SlopeLag == 13

\* most rows left after dropna in a modelled call
MaxRows == 13

\* most strategies in a list of plugged-in strategies
MaxStrategies == 3

Max(a, b) == IF a >= b THEN a ELSE b

\* len(add_basic_indicators(df).dropna()) for a frame of r rows
RowsAfterDropna(r) == Max(0, r - (EmaLongWindow - 1))

\* the bar counts modelled: one bar, and those leaving 0..MaxRows rows
RowCounts == {1} \cup {EmaLongWindow - 1 + r : r \in 0..MaxRows}

MarketRegime ==
    {"TREND_UP", "TREND_DOWN", "RANGE", "CHOPPY", "BREAKOUT", "UNKNOWN"}

\* the regimes compute_trend_direction returns
DetectedRegimes == {"TREND_UP", "TREND_DOWN", "RANGE", "CHOPPY"}

\* strategies other than the two shipped ones (any BaseStrategy)
PluginNames == <<"PluginA", "PluginB", "PluginC", "PluginD">>

_REGISTRY(r) ==
    CASE r = "TREND_UP" -> <<"TrendContinuation">>
      [] r = "TREND_DOWN" -> <<"TrendContinuation">>
      [] r = "RANGE" -> <<"RangeReversion">>
      [] r = "CHOPPY" -> <<"RangeReversion">>
      [] r = "BREAKOUT" -> <<"TrendContinuation">>
      [] r = "UNKNOWN" -> <<"TrendContinuation", "RangeReversion">>
      [] OTHER -> <<>>

\* allow-lists modelled; Some({}) is the empty list
AllowLists ==
    Optional(SUBSET {"TrendContinuation", "RangeReversion", "NoSuchStrategy"})

\* a bug step 3 could have: the allow-list not applied
EligibleStrategiesUnfiltered(r, enabled) == _REGISTRY(r)

\* step 3: the registry entry, filtered by a non-empty allow-list
EligibleStrategies(r, enabled) ==
    IF enabled # None /\ enabled[1] # {}
    THEN SelectSeq(_REGISTRY(r), LAMBDA s : s \in enabled[1])
    ELSE _REGISTRY(r)

\* confidence scores in hundredths
ConfidenceLevels == {60, 70, 90}

\* the fields of a strategy's TradeSignal the engine reads
Proposal(name, action, confidence, r) ==
    [action |-> action, strategy_name |-> name,
     confidence_score |-> confidence, regime |-> r]

\* outcome of one strategy call: an exception, or the value returned
Raised == [kind |-> "raise", signal |-> None]
Returned(sig) == [kind |-> "return", signal |-> sig]

\* a bug the strategy could have: the regime not re-validated
TrendContinuationNoRegimeCheck(r, reg) ==
    IF r < 1 \/ r < Ema20SlopeLag \/ r < Ema50SlopeLag THEN {Raised}
    ELSE {Returned(None)}
         \cup {Returned(Some(Proposal("TrendContinuation", "BUY", c, reg))) :
                 c \in {70, 90}}

\* what TrendContinuationStrategy.generate_signal can do on a frame of r
\* rows: abstain outside TREND_UP, IndexError on a frame too short for its
\* lookbacks, else abstain or a BUY with confidence in (0.65, 0.9]
TrendContinuation(r, reg) ==
    IF reg # "TREND_UP" THEN {Returned(None)}
    ELSE IF r < 1 \/ r < Ema20SlopeLag \/ r < Ema50SlopeLag THEN {Raised}
    ELSE {Returned(None)}
         \cup {Returned(Some(Proposal("TrendContinuation", "BUY", c, reg))) :
                 c \in {70, 90}}

\* a bug range reversion could have: the regime not re-validated
RangeReversionNoRegimeCheck(r, reg) ==
    IF r < 1 THEN {Raised}
    ELSE {Returned(None)}
         \cup {Returned(Some(Proposal("RangeReversion", a, 60, reg))) :
                 a \in {"BUY", "SELL"}}

\* what RangeReversionStrategy.generate_signal can do: abstain outside
\* RANGE, IndexError on an empty frame, else abstain or a BUY or SELL with
\* confidence 0.6
RangeReversion(r, reg) ==
    IF reg # "RANGE" THEN {Returned(None)}
    ELSE IF r < 1 THEN {Raised}
    ELSE {Returned(None)}
         \cup {Returned(Some(Proposal("RangeReversion", a, 60, reg))) :
                 a \in {"BUY", "SELL"}}

\* what any other BaseStrategy can do
Plugin(name, reg) ==
    {Raised, Returned(None)}
    \cup {Returned(Some(Proposal(name, a, c, reg))) :
            a \in {"BUY", "SELL"}, c \in ConfidenceLevels}

\* strat.generate_signal(df, symbol, timeframe, regime)
StrategyCall(name, r, reg) ==
    CASE name = "TrendContinuation" -> TrendContinuation(r, reg)
      [] name = "RangeReversion" -> RangeReversion(r, reg)
      [] OTHER -> Plugin(name, reg)

\* close of the last row of _mock_uptrend_df(lim): 100 + (lim - 1) * 0.5
MockLastClose(lim) == Frac(200 + (lim - 1), 2)

\* the demo fallback signal built from the latest close
DemoFallback(p) ==
    [action |-> "BUY", strategy_name |-> "DemoTrendContinuation",
     confidence_score |-> 90, regime |-> "TREND_UP",
     entry_zone |-> <<FMul(p, Frac(995, 1000)), FMul(p, Frac(1005, 1000))>>,
     stop_loss |-> FMul(p, Frac(985, 1000)),
     take_profits |-> <<FMul(p, Frac(102, 100)), FMul(p, Frac(104, 100))>>]

\* what step 1 did with the exchange: kind is "not_called", "returned",
\* "fetch_raised" or "indicators_raised"; count is the number of bars fetched
Fetch(kind, count) == [kind |-> kind, rows |-> count]

\* steps 1 to 3 in demo mode: mock frame, regime TREND_UP, strategy list
DemoData ==
    /\ epc = "start"
    /\ \E lim \in RowCounts, en \in AllowLists :
         /\ use_mock' = TRUE
         /\ limit' = lim
         /\ enabled_strategies' = en
         /\ rows' = RowsAfterDropna(lim)
         /\ price' = IF RowsAfterDropna(lim) > 0 THEN Some(MockLastClose(lim))
                     ELSE None
         /\ regime' = "TREND_UP"
         /\ strategies' = EligibleStrategies("TREND_UP", en)
    /\ epc' = "strategies"
    /\ UNCHANGED <<fetch, calls, best_signal, ret>>
    /\ UNCHANGED <<btvars, apivars, clsvars, sgvars, ccvars>>

\* a bug the data step could have: the two empty checks left out
LiveDataNoEmptyCheck ==
    /\ epc = "start"
    /\ \E lim \in RowCounts, en \in AllowLists,
          fetched \in {0} \cup RowCounts, reg \in DetectedRegimes :
         /\ fetched <= lim
         /\ use_mock' = FALSE
         /\ limit' = lim
         /\ enabled_strategies' = en
         /\ fetch' = Fetch("returned", fetched)
         /\ rows' = RowsAfterDropna(fetched)
         /\ epc' = "strategies"
         /\ regime' = reg
         /\ strategies' = EligibleStrategies(reg, en)
    /\ ret' = None
    /\ UNCHANGED <<price, calls, best_signal>>
    /\ UNCHANGED <<btvars, apivars, clsvars, sgvars, ccvars>>

\* steps 1 to 3 on exchange data: fetch, indicators, dropna, the two empty
\* checks, detect_regime, strategy list
LiveData ==
    /\ epc = "start"
    /\ \E lim \in RowCounts, en \in AllowLists,
          fetched \in {0} \cup RowCounts, reg \in DetectedRegimes :
         /\ fetched <= lim
         /\ use_mock' = FALSE
         /\ limit' = lim
         /\ enabled_strategies' = en
         /\ fetch' = Fetch("returned", fetched)
         /\ rows' = RowsAfterDropna(fetched)
         /\ IF fetched = 0 \/ RowsAfterDropna(fetched) = 0
            THEN /\ epc' = "done"
                 /\ regime' = regime
                 /\ strategies' = <<>>
            ELSE /\ epc' = "strategies"
                 /\ regime' = reg
                 /\ strategies' = EligibleStrategies(reg, en)
    /\ ret' = None
    /\ UNCHANGED <<price, calls, best_signal>>
    /\ UNCHANGED <<btvars, apivars, clsvars, sgvars, ccvars>>

\* get_recent_candles or add_basic_indicators raises: nothing catches it
LiveDataRaises ==
    /\ epc = "start"
    /\ \E lim \in RowCounts, en \in AllowLists, fetched \in {0} \cup RowCounts :
         /\ fetched <= lim
         /\ use_mock' = FALSE
         /\ limit' = lim
         /\ enabled_strategies' = en
         /\ fetch' = IF fetched = 0 THEN Fetch("fetch_raised", 0)
                     ELSE Fetch("indicators_raised", fetched)
    /\ epc' = "raised"
    /\ UNCHANGED <<rows, price, regime, strategies, calls, best_signal, ret>>
    /\ UNCHANGED <<btvars, apivars, clsvars, sgvars, ccvars>>

\* a bug the selection could have: a later equal score replaces the best
ReplacesBestOnTie(sig, best) ==
    best = None \/ sig.confidence_score >= best[1].confidence_score

\* "best_signal is None or sig.confidence_score > best.confidence_score"
ReplacesBest(sig, best) ==
    best = None \/ sig.confidence_score > best[1].confidence_score

\* one iteration of "for strat in strategies"
RunStrategy ==
    /\ epc = "strategies"
    /\ strategies # <<>>
    /\ \E out \in StrategyCall(Head(strategies), rows, regime) :
         /\ calls' = Append(calls, [name |-> Head(strategies),
                                    outcome |-> out])
         /\ best_signal' =
              IF out.kind = "return" /\ out.signal # None
                 /\ ReplacesBest(out.signal[1], best_signal)
              THEN out.signal
              ELSE best_signal
    /\ strategies' = Tail(strategies)
    /\ UNCHANGED <<epc, use_mock, limit, enabled_strategies, fetch, rows,
                   price, regime, ret>>
    /\ UNCHANGED <<btvars, apivars, clsvars, sgvars, ccvars>>

\* step 4 and the return: the demo fallback reads df.iloc[-1], which raises
\* IndexError on an empty frame
Conclude ==
    /\ epc = "strategies"
    /\ strategies = <<>>
    /\ IF best_signal = None /\ use_mock
       THEN IF rows = 0
            THEN /\ epc' = "raised"
                 /\ UNCHANGED <<best_signal, ret>>
            ELSE /\ epc' = "done"
                 /\ best_signal' = Some(DemoFallback(price[1]))
                 /\ ret' = Some(DemoFallback(price[1]))
       ELSE /\ epc' = "done"
            /\ ret' = best_signal
            /\ UNCHANGED best_signal
    /\ UNCHANGED <<use_mock, limit, enabled_strategies, fetch, rows, price,
                   regime, strategies, calls>>
    /\ UNCHANGED <<btvars, apivars, clsvars, sgvars, ccvars>>

\* the state when generate_signal is called
EngInit ==
    /\ epc = "start"
    /\ use_mock = FALSE
    /\ limit = 0
    /\ enabled_strategies = None
    /\ fetch = Fetch("not_called", 0)
    /\ rows = 0
    /\ price = None
    /\ regime = "UNKNOWN"
    /\ strategies = <<>>
    /\ calls = <<>>
    /\ best_signal = None
    /\ ret = None

\* the strategy loop about to start on a list of plugged-in strategies
SelectInit ==
    /\ epc = "strategies"
    /\ use_mock = FALSE
    /\ limit = EmaLongWindow
    /\ enabled_strategies = None
    /\ fetch = Fetch("returned", EmaLongWindow)
    /\ rows = 1
    /\ price = None
    /\ regime \in DetectedRegimes
    /\ \E m \in 0..MaxStrategies : strategies = SubSeq(PluginNames, 1, m)
    /\ calls = <<>>
    /\ best_signal = None
    /\ ret = None

\* no backtest request received
ApiInit ==
    /\ apc = "idle"
    /\ strategy = ""
    /\ response = None
    /\ backtests = <<>>

\* compute_trend_direction not called
ClsIdle ==
    /\ cpc = "idle"
    /\ df = <<>>
    /\ ema20_slope = Zero
    /\ ema50_slope = Zero
    /\ detected = None

\* the shipped strategies about to be called, in some order, with any
\* regime on a frame of any modelled size
DirectInit ==
    /\ epc = "strategies"
    /\ use_mock = FALSE
    /\ limit = EmaLongWindow
    /\ enabled_strategies = None
    /\ rows \in 0..MaxRows
    /\ fetch = Fetch("not_called", 0)
    /\ price = None
    /\ regime \in MarketRegime
    /\ strategies \in {<<"TrendContinuation">>, <<"RangeReversion">>,
                        <<"TrendContinuation", "RangeReversion">>,
                        <<"RangeReversion", "TrendContinuation">>}
    /\ calls = <<>>
    /\ best_signal = None
    /\ ret = None

(* ------------------- the strategies on concrete frames ----------------- *)
\* a TradeSignal with its price levels; entry_zone, stop_loss and
\* take_profits are Optional, confidence is in hundredths (a rational)
Signal(action, name, zone, stop, targets, confidence, reg) ==
    [action |-> action, strategy_name |-> name, entry_zone |-> zone,
     stop_loss |-> stop, take_profits |-> targets,
     confidence_score |-> confidence, regime |-> reg]

\* x * num / den for an integer price x
Scaled(x, num, den) == Frac(x * num, den)

\* recent = df.tail(50) of range reversion
RangeLookback == 50

\* a <= x <= b
FBetween(a, x, b) == FLeq(a, x) /\ FLeq(x, b)

\* a bug range reversion could have: the compression ceiling not tested
RangeReversionNoCeiling(d, reg) ==
    IF reg # "RANGE" THEN Returned(None)
    ELSE IF d = <<>> THEN Raised
    ELSE
      LET last == d[Len(d)]
          recent == SeqTail(d, RangeLookback)
          range_high == SeqMax(Column(recent, "high"))
          range_low == SeqMin(Column(recent, "low"))
          range_height == range_high - range_low
          in_support ==
              FBetween(Scaled(range_low, 995, 1000), Frac(last.close, 1),
                       Scaled(range_low, 101, 100))
          in_resistance ==
              FBetween(Scaled(range_high, 99, 100), Frac(last.close, 1),
                       Scaled(range_high, 1005, 1000))
      IN  IF range_height <= 0 THEN Returned(None)
          ELSE IF in_support /\ last.rsi14 < 38
          THEN Returned(Some(Signal(
                   "BUY", "RangeReversion",
                   Some(<<Scaled(range_low, 995, 1000),
                          Scaled(range_low, 101, 100)>>),
                   Some(Scaled(range_low, 99, 100)),
                   Some(<<Scaled(last.close, 1025, 1000)>>),
                   Frac(60, 1), reg)))
          ELSE IF in_resistance /\ last.rsi14 > 62
          THEN Returned(Some(Signal(
                   "SELL", "RangeReversion",
                   Some(<<Scaled(range_high, 99, 100),
                          Scaled(range_high, 1005, 1000)>>),
                   Some(Scaled(range_high, 101, 100)),
                   Some(<<Scaled(last.close, 975, 1000)>>),
                   Frac(60, 1), reg)))
          ELSE Returned(None)

\* RangeReversionStrategy.generate_signal(df, symbol, timeframe, regime)
RangeReversionStrategy(d, reg) ==
    IF reg # "RANGE" THEN Returned(None)
    ELSE IF d = <<>> THEN Raised
    ELSE
      LET last == d[Len(d)]
          recent == SeqTail(d, RangeLookback)
          range_high == SeqMax(Column(recent, "high"))
          range_low == SeqMin(Column(recent, "low"))
          range_height == range_high - range_low
          compression ==
              OverFloored(Frac(range_height, 1),
                          SeqMean(Column(recent, "close")))
          in_support ==
              FBetween(Scaled(range_low, 995, 1000), Frac(last.close, 1),
                       Scaled(range_low, 101, 100))
          in_resistance ==
              FBetween(Scaled(range_high, 99, 100), Frac(last.close, 1),
                       Scaled(range_high, 1005, 1000))
      IN  IF range_height <= 0 THEN Returned(None)
          ELSE IF FLess(Frac(8, 100), compression) THEN Returned(None)
          ELSE IF in_support /\ last.rsi14 < 38
          THEN Returned(Some(Signal(
                   "BUY", "RangeReversion",
                   Some(<<Scaled(range_low, 995, 1000),
                          Scaled(range_low, 101, 100)>>),
                   Some(Scaled(range_low, 99, 100)),
                   Some(<<Scaled(last.close, 1025, 1000)>>),
                   Frac(60, 1), reg)))
          ELSE IF in_resistance /\ last.rsi14 > 62
          THEN Returned(Some(Signal(
                   "SELL", "RangeReversion",
                   Some(<<Scaled(range_high, 99, 100),
                          Scaled(range_high, 1005, 1000)>>),
                   Some(Scaled(range_high, 101, 100)),
                   Some(<<Scaled(last.close, 975, 1000)>>),
                   Frac(60, 1), reg)))
          ELSE Returned(None)

\* the windows trend continuation cuts
AtrWindow == 80
AtrPeriod == 14
SwingWindow == 20

\* (end - start) / max(start, 1e-9); model values are integers, so a start
\* that is not positive is below 1e-9 and the quotient of a non-zero
\* difference is beyond every threshold
LagSlope(end, start) ==
    IF start > 0 THEN Frac(end - start, start)
    ELSE IF end = start THEN Zero
    ELSE IF end > start THEN Inf
    ELSE <<-1, 0>>

\* true range of row i of data: the largest of high - low and the distances
\* of high and low from the previous close (none for the first row)
TrueRange(data, i) ==
    LET hl == data[i].high - data[i].low
    IN  IF i = 1 THEN hl
        ELSE Max(hl, Max(Abs(data[i].high - data[i - 1].close),
                         Abs(data[i].low - data[i - 1].close)))

\* _atr(data, 14): mean of the last 14 true ranges, NaN (None) with fewer
\* than 14 rows
_atr(data) ==
    IF Len(data) < AtrPeriod THEN None
    ELSE Some(Frac(SeqSum([i \in 1..AtrPeriod |->
                              TrueRange(data, Len(data) - AtrPeriod + i)]),
                   AtrPeriod))

FMin(a, b) == IF FLess(b, a) THEN b ELSE a

\* the proposal of trend continuation once its three filters passed
TrendContinuationProposal(d, reg, ema20_slope_) ==
    LET last == d[Len(d)]
        atr == _atr(SeqTail(d, AtrWindow))
        atr_ok == atr # None /\ FLess(Zero, atr[1])
        swing_low == SeqMin(Column(SeqTail(d, SwingWindow), "low"))
        sl_buffer == IF atr_ok THEN FMul(atr[1], Frac(8, 10))
                     ELSE Scaled(swing_low, 3, 1000)
        sl == FMin(FSub(Frac(swing_low, 1), sl_buffer),
                   Scaled(last.close, 97, 100))
        tp1 == FAdd(Frac(last.close, 1),
                    IF atr_ok THEN FMul(atr[1], Frac(14, 10))
                    ELSE Scaled(last.close, 2, 100))
        tp2 == FAdd(Frac(last.close, 1),
                    IF atr_ok THEN FMul(atr[1], Frac(24, 10))
                    ELSE Scaled(last.close, 4, 100))
        pullback_band_low == Scaled(Min(last.ema20, last.ema50), 985, 1000)
        pullback_band_high == Scaled(last.ema20, 103, 100)
        confidence == FMin(Frac(90, 1),
                           FAdd(Frac(65, 1),
                                FMul(ema20_slope_, Frac(800, 1))))
    IN  Signal("BUY", "TrendContinuation",
               Some(<<pullback_band_low,
                      FMax(pullback_band_high, Scaled(last.ema50, 101, 100))>>),
               Some(sl), Some(<<tp1, tp2>>), confidence, reg)

\* TrendContinuationStrategy.generate_signal(df, symbol, timeframe, regime):
\* df.iloc[-1], iloc[-8] and iloc[-13] raise IndexError on a shorter frame
TrendContinuationStrategy(d, reg) ==
    IF reg # "TREND_UP" THEN Returned(None)
    ELSE IF Len(d) < 1 \/ Len(d) < Ema20SlopeLag \/ Len(d) < Ema50SlopeLag
    THEN Raised
    ELSE
      LET last == d[Len(d)]
          slope == LagSlope(last.ema20, d[Len(d) - Ema20SlopeLag + 1].ema20)
          ema_trend_ok ==
              /\ last.ema20 > last.ema50 /\ last.ema50 > last.ema200
              /\ FLess(Frac(5, 10000), slope)
          pullback_ok ==
              FBetween(Scaled(Min(last.ema20, last.ema50), 985, 1000),
                       Frac(last.close, 1), Scaled(last.ema20, 103, 100))
          rsi_ok == 50 <= last.rsi14 /\ last.rsi14 <= 68
      IN  IF ~ema_trend_ok THEN Returned(None)
          ELSE IF ~(pullback_ok /\ rsi_ok) THEN Returned(None)
          ELSE Returned(Some(TrendContinuationProposal(d, reg, slope)))

\* a row of a frame: OHLC fields and the indicator columns the strategies
\* read
Row(high, low, c, ema20, ema50, ema200, rsi14) ==
    [high |-> high, low |-> low, close |-> c, ema20 |-> ema20,
     ema50 |-> ema50, ema200 |-> ema200, rsi14 |-> rsi14]

\* last rows of the sideways frames modelled: closes at and next to the
\* bounds of both zones, oscillator at and next to both thresholds
RangeLastRows ==
    {Row(h, l, c, c, c, c, rsi) :
        h \in {1000, 1010, 1050}, l \in {1000, 1040},
        c \in {1000, 1005, 1010, 1011, 1039, 1040, 1050},
        rsi \in {20, 37, 38, 50, 62, 63, 80}}

\* older rows of the sideways frames modelled: flat, narrow, wide within
\* the ceiling and wider than the ceiling
RangeOldRows ==
    {Row(1000, 1000, 1000, 1000, 1000, 1000, 50),
     Row(1010, 1000, 1005, 1005, 1005, 1005, 50),
     Row(1050, 1000, 1025, 1025, 1025, 1025, 50),
     Row(1100, 1000, 1050, 1050, 1050, 1050, 50)}

\* sideways frames: some older rows, then rows equal to the last
RangeFrames ==
    {Window(len, j, old, last) :
        len \in {1, 2, RangeLookback, RangeLookback + 1},
        j \in {0, 1, 2, RangeLookback - 1, RangeLookback},
        old \in RangeOldRows,
        last \in {r \in RangeLastRows : r.low <= r.close /\ r.close <= r.high}}

\* a frame of len rows ending in last, each earlier row lower by dc in its
\* prices and by d20 in its short and medium averages
Ramp(len, last, dc, d20) ==
    [i \in 1..len |->
        Row(last.high - (len - i) * dc, last.low - (len - i) * dc,
            last.close - (len - i) * dc, last.ema20 - (len - i) * d20,
            last.ema50 - (len - i) * d20, last.ema200, last.rsi14)]

\* frame lengths modelled for trend continuation: around each lookback
TrendLengths ==
    {1, Ema20SlopeLag, Ema50SlopeLag - 1, Ema50SlopeLag, AtrPeriod,
     SwingWindow + 1, AtrWindow + 1}

\* last rows modelled for trend continuation: averages stacked or not,
\* close in, above and below the pullback band, oscillator at and next to
\* the bounds of the healthy zone, bars with and without a spread
TrendLastRows(ema20) ==
    {Row(c + up, c - dn, c, ema20, ema50, ema200, rsi) :
        c \in {ema20 - 300, ema20, ema20 + 500},
        up \in {0, 20}, dn \in {0, 30},
        ema50 \in {ema20 - 50, ema20 + 10},
        ema200 \in {ema20 - 150, ema20 + 150},
        rsi \in {49, 50, 68, 69}}

\* rising frames: the short average 14000 seven rows back and rising by
\* d20 a row (d20 = 1 is the slope threshold 0.0005, d20 = 70 caps the
\* confidence), the close flat or rising by 10 or by 30 a row (by 30 the
\* swing low lies more than 3% below the close)
TrendFrames ==
    UNION {{Ramp(len, last, dc, d20) :
              len \in TrendLengths, dc \in {0, 10, 30},
              last \in TrendLastRows(14000 + 7 * d20)} :
           d20 \in {0, 1, 2, 70}}

\* the call of trend continuation on the frame
RunTrendContinuation ==
    /\ spc = "start"
    /\ sname = "TrendContinuation"
    /\ \E out \in {TrendContinuationStrategy(sdf, sregime)} :
         /\ spc' = IF out.kind = "raise" THEN "raised" ELSE "returned"
         /\ proposal' = out.signal
    /\ UNCHANGED <<sname, sregime, sdf, signal>>
    /\ UNCHANGED <<btvars, engvars, apivars, clsvars, ccvars>>

\* trend continuation about to be called on a rising frame
TrendContinuationInit ==
    /\ spc = "start"
    /\ sname = "TrendContinuation"
    /\ sregime \in {"TREND_UP", "BREAKOUT"}
    /\ sdf \in TrendFrames
    /\ proposal = None
    /\ signal = None

\* the call of range reversion on the frame
RunRangeReversion ==
    /\ spc = "start"
    /\ sname = "RangeReversion"
    /\ \E out \in {RangeReversionStrategy(sdf, sregime)} :
         /\ spc' = IF out.kind = "raise" THEN "raised" ELSE "returned"
         /\ proposal' = out.signal
    /\ UNCHANGED <<sname, sregime, sdf, signal>>
    /\ UNCHANGED <<btvars, engvars, apivars, clsvars, ccvars>>

\* range reversion about to be called on a sideways frame
RangeReversionInit ==
    /\ spc = "start"
    /\ sname = "RangeReversion"
    /\ sregime \in {"RANGE", "CHOPPY", "UNKNOWN"}
    /\ sdf \in RangeFrames
    /\ proposal = None
    /\ signal = None

\* a bug the demo fallback could have: the stop-loss on the wrong side
DemoSignalStopAbove(d) ==
    LET last_close == d[Len(d)].close
    IN  Signal("BUY", "DemoTrendContinuation",
               Some(<<Scaled(last_close, 995, 1000),
                      Scaled(last_close, 1005, 1000)>>),
               Some(Scaled(last_close, 1015, 1000)),
               Some(<<Scaled(last_close, 102, 100),
                      Scaled(last_close, 104, 100)>>),
               Frac(90, 1), "TREND_UP")

\* the engine's demo fallback signal, built from the latest close
DemoSignal(d) ==
    LET last_close == d[Len(d)].close
    IN  Signal("BUY", "DemoTrendContinuation",
               Some(<<Scaled(last_close, 995, 1000), Scaled(last_close, 1005, 1000)>>),
               Some(Scaled(last_close, 985, 1000)),
               Some(<<Scaled(last_close, 102, 100), Scaled(last_close, 104, 100)>>),
               Frac(90, 1), "TREND_UP")

\* demo mode after no strategy proposed: the fallback builds the signal
RunDemoFallback ==
    /\ spc = "start"
    /\ sname = "DemoTrendContinuation"
    /\ spc' = "returned"
    /\ proposal' = Some(DemoSignal(sdf))
    /\ UNCHANGED <<sname, sregime, sdf, signal>>
    /\ UNCHANGED <<btvars, engvars, apivars, clsvars, ccvars>>

\* one-row frames the demo fallback reads the close of
DemoFrames == {f \in TrendFrames : Len(f) = 1}

\* the demo fallback about to run, no strategy having proposed
DemoFallbackInit ==
    /\ spc = "start"
    /\ sname = "DemoTrendContinuation"
    /\ sregime \in {"TREND_UP", "CHOPPY"}
    /\ sdf \in DemoFrames
    /\ proposal = None
    /\ signal = None

\* the explicit NO_TRADE signal with a stop-loss filled in
NoValidSetupWithStop ==
    Signal("NO_TRADE", "NoValidSetup", None, Some(Zero), None, Zero, "UNKNOWN")

\* the explicit NO_TRADE signal of the API
NoValidSetup ==
    Signal("NO_TRADE", "NoValidSetup", None, None, None, Zero, "UNKNOWN")

\* the API answers the request: the signal it was handed, NO_TRADE when it
\* was handed none, status 500 when signal generation raised
AnswerSignal ==
    /\ spc \in {"returned", "raised"}
    /\ spc' = IF spc = "raised" THEN "failed" ELSE "answered"
    /\ signal' = IF spc = "raised" THEN None
                 ELSE IF proposal = None THEN Some(NoValidSetup)
                 ELSE proposal
    /\ UNCHANGED <<sname, sregime, sdf, proposal>>
    /\ UNCHANGED <<btvars, engvars, apivars, clsvars, ccvars>>

\* no strategy called on a frame of its own
SgIdle ==
    /\ spc = "idle"
    /\ sname = ""
    /\ sregime = "UNKNOWN"
    /\ sdf = <<>>
    /\ proposal = None
    /\ signal = None

\* ---- concurrent invocations sharing the registry ----

\* the module-level mapping after import
InitialRegistry == [r \in MarketRegime |-> _REGISTRY(r)]

\* the two singletons with their attributes
InitialInstances ==
    [c \in {"TrendContinuation", "RangeReversion"} |->
        [name |-> c,
         regimes |-> IF c = "TrendContinuation" THEN <<"TREND_UP">>
                     ELSE <<"RANGE">>]]

\* a lookup that empties the list it hands out
RegistryLookupPops(r, reg) == [r EXCEPT ![reg] = <<>>]

\* registry.get(regime, []) leaves the mapping as it was
RegistryAfterLookup(r, reg) == r

\* strat.generate_signal(df, symbol, timeframe, regime) of an instance
GenerateSignal(self, d, reg) ==
    IF self.name = "TrendContinuation" THEN TrendContinuationStrategy(d, reg)
    ELSE RangeReversionStrategy(d, reg)

\* the loop of the engine over its strategies, from the best so far
RECURSIVE BestOver(_, _, _, _, _)
BestOver(names, objs, d, reg, best) ==
    IF names = <<>> THEN best
    ELSE LET out == GenerateSignal(objs[Head(names)], d, reg)
             better == /\ out.kind = "return"
                       /\ out.signal # None
                       /\ \/ best = None
                          \/ FLess(best[1].confidence_score,
                                   out.signal[1].confidence_score)
         IN  BestOver(Tail(names), objs, d, reg,
                      IF better THEN out.signal ELSE best)

\* candles.iloc[: idx + 1] for the k-th row after the long average's
\* warm-up rows were dropped
HistoryAt(d, j) == SubSeq(d, 1, Min(EmaLongWindow - 1 + j, Len(d)))

\* what one bar of a backtest sees of its strategy: "raise" ends the run
BarOutcome(self, d, j) ==
    GenerateSignal(self, HistoryAt(d, j), detect_regime(HistoryAt(d, j)))

\* an invocation run alone: the engine's best signal, or the outcomes a
\* backtest's strategy gave bar by bar
Solo(in) ==
    IF in.kind = "signal"
    THEN BestOver(_REGISTRY(detect_regime(in.frame)), InitialInstances,
                  in.frame, detect_regime(in.frame), None)
    ELSE [j \in 1..Len(in.frame) |->
             BarOutcome(InitialInstances[in.strategy], in.frame, j)]

\* a rising frame the classifier calls TREND_UP
CcTrendFrame ==
    Ramp(Ema50SlopeLag, Row(14040, 14010, 14020, 14014, 13964, 13864, 50),
         10, 2)

\* a flat frame of the shortest length the classifier calls RANGE, its
\* close at the bottom of the bar with the oscillator oversold
CcRangeFrame == [i \in 1..MinRangeBars |-> Row(1010, 1000, 1000, 1000, 1000, 1000, 20)]

\* the same frame with the close at the top and the oscillator overbought
CcTopFrame == [i \in 1..MinRangeBars |-> Row(1010, 1000, 1010, 1010, 1010, 1010, 80)]

\* the invocations modelled: signal generation and backtests on the frames
CcInputs ==
    {[kind |-> kd, frame |-> f, strategy |-> c] :
        kd \in {"signal", "backtest"},
        f \in {CcTrendFrame, CcRangeFrame, CcTopFrame},
        c \in {"TrendContinuation", "RangeReversion"}}

Invocations == {"first", "second"}

\* the engine reads the list for its regime from the shared registry
CcLookup(i) ==
    /\ inv[i].pc = "start"
    /\ inv[i].in.kind = "signal"
    /\ \E reg \in {detect_regime(inv[i].in.frame)} :
         /\ inv' = [inv EXCEPT ![i].pc = "loop", ![i].regime = reg,
                               ![i].strategies = registry[reg]]
         /\ registry' = RegistryAfterLookup(registry, reg)
    /\ UNCHANGED instances
    /\ UNCHANGED <<btvars, engvars, apivars, clsvars, sgvars>>

\* the engine calls the next shared instance and keeps the better signal
CcCall(i) ==
    /\ inv[i].pc = "loop"
    /\ inv[i].strategies # <<>>
    /\ \E best \in {BestOver(<<Head(inv[i].strategies)>>, instances,
                             inv[i].in.frame, inv[i].regime, inv[i].best)} :
         inv' = [inv EXCEPT ![i].strategies = Tail(@), ![i].best = best]
    /\ UNCHANGED <<registry, instances>>
    /\ UNCHANGED <<btvars, engvars, apivars, clsvars, sgvars>>

\* the engine returns its best signal
CcReturn(i) ==
    /\ inv[i].pc = "loop"
    /\ inv[i].strategies = <<>>
    /\ inv' = [inv EXCEPT ![i].pc = "done", ![i].result = inv[i].best]
    /\ UNCHANGED <<registry, instances>>
    /\ UNCHANGED <<btvars, engvars, apivars, clsvars, sgvars>>

\* a backtest instantiates its own strategy: strategy = strategy_cls()
CcInstantiate(i) ==
    /\ inv[i].pc = "start"
    /\ inv[i].in.kind = "backtest"
    /\ inv' = [inv EXCEPT ![i].pc = "bars",
                          ![i].own = InitialInstances[inv[i].in.strategy]]
    /\ UNCHANGED <<registry, instances>>
    /\ UNCHANGED <<btvars, engvars, apivars, clsvars, sgvars>>

\* a backtest calls its strategy on the history of the next bar
CcBar(i) ==
    /\ inv[i].pc = "bars"
    /\ Len(inv[i].outs) < Len(inv[i].in.frame)
    /\ \E out \in {BarOutcome(inv[i].own, inv[i].in.frame,
                              Len(inv[i].outs) + 1)} :
         inv' = [inv EXCEPT ![i].outs = Append(@, out)]
    /\ UNCHANGED <<registry, instances>>
    /\ UNCHANGED <<btvars, engvars, apivars, clsvars, sgvars>>

\* a backtest is over after its last bar
CcFinish(i) ==
    /\ inv[i].pc = "bars"
    /\ Len(inv[i].outs) = Len(inv[i].in.frame)
    /\ inv' = [inv EXCEPT ![i].pc = "done", ![i].result = inv[i].outs]
    /\ UNCHANGED <<registry, instances>>
    /\ UNCHANGED <<btvars, engvars, apivars, clsvars, sgvars>>

\* two invocations about to run over the registry as imported
CcInit ==
    /\ registry = InitialRegistry
    /\ instances = InitialInstances
    /\ \E ins \in [Invocations -> CcInputs] :
         inv = [i \in Invocations |->
                  [in |-> ins[i], pc |-> "start", regime |-> "UNKNOWN",
                   strategies |-> <<>>, best |-> None, own |-> <<>>,
                   outs |-> <<>>, result |-> None]]

\* no concurrent invocations
CcIdle ==
    /\ registry = <<>>
    /\ instances = <<>>
    /\ inv = <<>>

Init == BtInit /\ EngInit /\ ApiInit /\ ClsIdle
    /\ SgIdle /\ CcIdle

Next == LoadCandles \/ ProcessBar \/ StrategyRaises \/ Finish

\* a backtest run
Spec == Init /\ [][Next]_vars

ExitNext == ProcessBar \/ Finish

ExitStart == ExitInit /\ EngInit /\ ApiInit /\ ClsIdle
    /\ SgIdle /\ CcIdle

\* the per-bar exit checks, observed on the final bar of a run
SpecExit == ExitStart /\ [][ExitNext]_vars

EquityNext == ProcessBar \/ Finish

EquityStart == EquityInit /\ EngInit /\ ApiInit /\ ClsIdle
    /\ SgIdle /\ CcIdle

\* the remaining bars of a run whose first trade is closed
SpecEquity == EquityStart /\ [][EquityNext]_vars

HoldNext == ProcessBar \/ Finish

HoldStart == HoldInit /\ EngInit /\ ApiInit /\ ClsIdle
    /\ SgIdle /\ CcIdle

\* the third bar of a run that holds a position, its inputs recorded
SpecHold == HoldStart /\ [][HoldNext]_vars

EngineNext ==
    DemoData \/ LiveData \/ LiveDataRaises \/ RunStrategy \/ Conclude

\* a call of generate_signal with the shipped registry
SpecEngine == Init /\ [][EngineNext]_vars

\* run_backtest as the handler calls it
ApiRun ==
    apc = "running" /\ (LoadCandles \/ ProcessBar \/ StrategyRaises \/ Finish)

ApiNext == ApiBacktest \/ ApiRun \/ ApiRespond

\* a GET /backtest request
SpecApi == Init /\ [][ApiNext]_vars

RegimeStart == BtInit /\ EngInit /\ ApiInit /\ ClsInit
    /\ SgIdle /\ CcIdle

\* a call of detect_regime
SpecRegime == RegimeStart /\ [][DetectRegime]_vars

SelectNext == RunStrategy \/ Conclude

SelectStart == SelectInit /\ BtInit /\ ApiInit /\ ClsIdle
    /\ SgIdle /\ CcIdle

\* the strategy loop and the return over any list of strategies
SpecSelect == SelectStart /\ [][SelectNext]_vars

DirectStart == DirectInit /\ BtInit /\ ApiInit /\ ClsIdle
    /\ SgIdle /\ CcIdle

\* the shipped strategies called directly
SpecStrategies == DirectStart /\ [][SelectNext]_vars

ProposalsNext ==
    RunRangeReversion \/ RunTrendContinuation \/ RunDemoFallback \/ AnswerSignal

ProposalsInit ==
    RangeReversionInit \/ TrendContinuationInit \/ DemoFallbackInit

ProposalsStart == BtInit /\ EngInit /\ ApiInit /\ ClsIdle /\ CcIdle
    /\ ProposalsInit

\* the strategies called on concrete frames, and the answer of the API
SpecProposals == ProposalsStart /\ [][ProposalsNext]_vars

\* ---- concurrent invocations ----
ConcurrentNext ==
    \E i \in Invocations :
        \/ CcLookup(i)
        \/ CcCall(i)
        \/ CcReturn(i)
        \/ CcInstantiate(i)
        \/ CcBar(i)
        \/ CcFinish(i)

ConcurrentStart == BtInit /\ EngInit /\ ApiInit /\ ClsIdle /\ SgIdle /\ CcInit

SpecConcurrent == ConcurrentStart /\ [][ConcurrentNext]_vars

(* ===================== properties of run_backtest ====================== *)
Hundred == Frac(100, 1)

\* exits recorded for the bar at position j
ExitsOn(j) == {i \in DOMAIN exits : exits[i].bar = j}

\* exits taken by the per-bar checks, in order
CheckedExits == SelectSeq(exits, LAMBDA e : ~e.forced)

\* C1: the history passed to the regime classifier and the strategy for
\* the bar at position k - 1 (the bar processed last) is bars 0..k-1: it has
\* exactly k rows, whatever number of leading rows dropna removed.
NoLookAhead ==
    (pc \in {"loop", "done"} /\ k > 0) => histLen = k

\* C2: at most one position is open at any time (every entry but possibly
\* the last has been closed), and at the end of the run the entries, the
\* exits and the reported trade count are equal.
OnePositionBalancedBooks ==
    /\ Len(entries) - Len(exits) \in {0, 1}
    /\ (position # None) <=> (Len(entries) = Len(exits) + 1)
    /\ pc = "done" =>
         /\ position = None
         /\ Len(entries) = Len(exits)
         /\ result[1].trades_count = Len(exits)

\* a finished run that opened and closed a position on every bar
TwoRoundTrips ==
    pc = "done" /\ Len(entries) = MaxBars /\ Len(exits) = MaxBars
    /\ result[1].trades_count = MaxBars

ObsPos == obs[1].position[1]
ObsRow == obs[1].row
ObsSig == obs[1].signal
StopCrossed ==
    /\ ObsPos.stop_loss # None
    /\ IF ObsPos.direction = 1 THEN ObsRow.low <= ObsPos.stop_loss[1]
       ELSE ObsRow.high >= ObsPos.stop_loss[1]
TargetCrossed ==
    /\ ObsPos.take_profit # None
    /\ IF ObsPos.direction = 1 THEN ObsRow.high >= ObsPos.take_profit[1]
       ELSE ObsRow.low <= ObsPos.take_profit[1]
OpposingSignal ==
    /\ ObsSig # None
    /\ ObsSig[1].action = IF ObsPos.direction = 1 THEN "SELL" ELSE "BUY"
CheckedExitAt(p) ==
    CheckedExits = <<[bar |-> k - 1, price |-> p, forced |-> FALSE]>>

\* C3: on a bar processed with an open position the exit taken is the first
\* that applies of: stop-loss crossed (exit at the stop), take-profit
\* crossed (exit at the target), opposing signal (exit at the bar close);
\* if none applies no exit is taken on that bar.
ExitPriority ==
    obs # None =>
      IF StopCrossed THEN CheckedExitAt(ObsPos.stop_loss[1])
      ELSE IF TargetCrossed THEN CheckedExitAt(ObsPos.take_profit[1])
      ELSE IF OpposingSignal THEN CheckedExitAt(ObsRow.close)
      ELSE CheckedExits = <<>>

\* stop and target both crossed on one bar, at different prices
StopAndTargetSameBar ==
    /\ obs # None
    /\ StopCrossed /\ TargetCrossed
    /\ ObsPos.stop_loss # ObsPos.take_profit
    /\ CheckedExitAt(ObsPos.stop_loss[1])

\* C4 as claimed: no bar of the run, the final one included, has more than
\* one exit recorded.
OneExitPerBar ==
    \A j \in 0..MaxBars : Cardinality(ExitsOn(j)) <= 1

\* C4 amended: the per-bar checks record at most one exit per bar; the only
\* other exit is the forced close, on the final bar, so every bar but the
\* final one has at most one exit and the final bar at most two.
OneCheckedExitPerBar ==
    /\ \A j \in 0..MaxBars :
         Cardinality({i \in ExitsOn(j) : ~exits[i].forced}) <= 1
    /\ \A i \in DOMAIN exits :
         exits[i].forced => (pc = "done" /\ i = Len(exits)
                             /\ exits[i].bar = n - 1)

\* the final bar carries a checked exit and the forced close
TwoExitsOnFinalBar ==
    pc = "done" /\ Cardinality(ExitsOn(n - 1)) = 2

\* C5: the run ends flat, a position left open by the loop being closed at
\* the last bar's close; a run with one long entry and no checked exit
\* reports 1 trade and total return % = (last_close / entry - 1) * 100.
ForcedFinalClose ==
    pc = "done" =>
      /\ position = None
      /\ \A i \in DOMAIN exits : exits[i].forced => exits[i].price = close
      /\ (Len(entries) = 1 /\ CheckedExits = <<>>) =>
           /\ result[1].trades_count = 1
           /\ entries[1].direction = 1 =>
                result[1].total_return_pct =
                    FMul(FSub(Frac(close, entries[1].price), One), Hundred)

\* one long entry on the first bar, closed only by the forced close, at a
\* different price
SingleLongForcedClose ==
    /\ pc = "done" /\ Len(entries) = 1 /\ CheckedExits = <<>>
    /\ entries[1].direction = 1 /\ entries[1].bar = 0
    /\ close # entries[1].price
    /\ result[1].trades_count = 1

WinRateInRange ==
    FLeq(Zero, result[1].win_rate) /\ FLeq(result[1].win_rate, Hundred)

\* C6 as claimed: win rate is in [0, 100] and is 0 exactly when the trade
\* count is 0.
WinRateZeroIffNoTrades ==
    pc = "done" =>
      /\ WinRateInRange
      /\ (result[1].win_rate = Zero) <=> (result[1].trades_count = 0)

\* C6 amended: win rate is in [0, 100] and is 0 exactly when no trade
\* closed with a positive return, which includes a trade count of 0.
WinRateZeroIffNoWins ==
    pc = "done" =>
      /\ WinRateInRange
      /\ (result[1].win_rate = Zero) <=>
           (\A i \in DOMAIN trades : ~FLess(Zero, trades[i]))
      /\ result[1].trades_count = 0 => result[1].win_rate = Zero

\* trades were closed, none with a profit
TradesButNoWin ==
    pc = "done" /\ result[1].trades_count > 0 /\ result[1].win_rate = Zero

Proposals ==
    {i \in DOMAIN calls :
        calls[i].outcome.kind = "return" /\ calls[i].outcome.signal # None}

Confidence(i) == calls[i].outcome.signal[1].confidence_score

\* position of the proposal to select: the highest confidence, and among
\* equals the one invoked first
FirstHighest(i) ==
    /\ i \in Proposals
    /\ \A j \in Proposals :
         /\ Confidence(j) <= Confidence(i)
         /\ Confidence(j) = Confidence(i) => i <= j

\* C8: generate_signal returns, among the proposals of the strategies it
\* invoked that neither abstained nor raised, the one with the highest
\* confidence, and among several with the highest confidence the one of
\* the strategy that comes first.
SelectsFirstHighest ==
    (epc = "done" /\ Proposals # {}) =>
      \E i \in Proposals : FirstHighest(i) /\ ret = calls[i].outcome.signal

\* two strategies proposed with the same, highest confidence and the
\* earlier one was returned
TieKeepsFirst ==
    /\ epc = "done"
    /\ \E i, j \in Proposals :
         /\ i < j
         /\ Confidence(i) = Confidence(j)
         /\ FirstHighest(i)
         /\ ret = calls[i].outcome.signal

SomeStrategyRaised ==
    \E i \in DOMAIN calls : calls[i].outcome.kind = "raise"

\* C9: when a strategy raises, the strategies after it are still invoked,
\* generate_signal itself does not raise, and it returns what it would have
\* returned had that strategy abstained: the first highest proposal of the
\* others, else the demo fallback in demo mode, else None.
StrategyFaultIsolated ==
    (epc \in {"done", "raised"} /\ SomeStrategyRaised) =>
      /\ epc = "done"
      /\ Len(calls) = Len(EligibleStrategies(regime, enabled_strategies))
      /\ IF Proposals # {}
         THEN \E i \in Proposals :
                FirstHighest(i) /\ ret = calls[i].outcome.signal
         ELSE IF use_mock THEN ret # None /\ ret[1].action = "BUY"
         ELSE ret = None

\* C10: every call in demo mode, whatever the bar count and the allow-list,
\* returns a signal (not None, and no exception) whose action is BUY; with
\* no proposal selected it is the fallback built from the latest close:
\* entry zone close*0.995..close*1.005, stop-loss close*0.985, take-profits
\* close*1.02 and close*1.04, confidence 0.9, regime TREND_UP.
DemoAlwaysReturnsBuy ==
    (use_mock /\ epc \in {"done", "raised"}) =>
      /\ epc = "done"
      /\ ret # None
      /\ ret[1].action = "BUY"
      /\ Proposals = {} =>
           /\ ret[1].entry_zone =
                <<FDiv(FMul(price[1], Frac(199, 1)), Frac(200, 1)),
                  FDiv(FMul(price[1], Frac(201, 1)), Frac(200, 1))>>
           /\ ret[1].stop_loss =
                FDiv(FMul(price[1], Frac(197, 1)), Frac(200, 1))
           /\ ret[1].take_profits =
                <<FDiv(FMul(price[1], Frac(51, 1)), Frac(50, 1)),
                  FDiv(FMul(price[1], Frac(26, 1)), Frac(25, 1))>>
           /\ ret[1].confidence_score = 90
           /\ ret[1].regime = "TREND_UP"

\* step 1 of a non-demo call ended with no bar to work on: nothing fetched,
\* or nothing left after add_basic_indicators and dropna
DataUnavailable ==
    ~use_mock /\ fetch.kind = "returned" /\ rows = 0

\* what the caller gets: how the call ended and the value returned
Outcome == <<epc, ret>>

\* the outcome of a call in which every eligible strategy abstained
NoSetupOutcome == <<"done", None>>

\* C11: a call that found the data unavailable (no bars fetched, or none
\* left after the indicators) ends with an outcome that differs from the
\* no-setup outcome, so the caller can tell the two apart.
DataUnavailableDistinguishable ==
    (epc \in {"done", "raised"} /\ DataUnavailable) =>
        Outcome # NoSetupOutcome

\* C12: in non-demo mode a fetch that returns no bars, or bars of which
\* none is left after the indicators and dropna, makes generate_signal
\* return None without raising, the regime classifier and the strategies
\* not being invoked; an exception raised by the fetch or by the indicator
\* computation ends the call as an exception.
NoDataReturnsNone ==
    /\ DataUnavailable =>
         /\ epc = "done"
         /\ ret = None
         /\ regime = "UNKNOWN"
         /\ calls = <<>>
    /\ fetch.kind \in {"fetch_raised", "indicators_raised"} =>
         /\ epc = "raised"
         /\ regime = "UNKNOWN"
         /\ calls = <<>>

\* bars were fetched, too few for the longest average: none is left
NoRowsAfterIndicators ==
    /\ epc = "done" /\ ~use_mock
    /\ fetch = Fetch("returned", EmaLongWindow - 1)
    /\ rows = 0 /\ ret = None /\ calls = <<>>

\* names of the strategies invoked, in the order of the calls
Invoked == [i \in 1..Len(calls) |-> calls[i].name]

\* the call got past step 3 and ended
StrategiesChosen ==
    /\ epc \in {"done", "raised"}
    /\ use_mock \/ (fetch.kind = "returned" /\ rows > 0)

\* the strategies registered for the regime whose name is in the list
RegisteredIn(names) == SelectSeq(_REGISTRY(regime), LAMBDA x : x \in names)

\* C15 as claimed: with an allow-list supplied, whatever names it holds
\* (none included), the strategies invoked are those registered for the
\* regime whose name is in it, in registry order; with no allow-list, all
\* the strategies registered for the regime are invoked.
AllowListAsClaimed ==
    StrategiesChosen =>
      IF enabled_strategies # None
      THEN Invoked = RegisteredIn(enabled_strategies[1])
      ELSE Invoked = _REGISTRY(regime)

\* C15 amended: with a non-empty allow-list the strategies invoked are
\* those registered for the regime whose name is in it, in registry order;
\* with no allow-list or an empty one, all the strategies registered for
\* the regime are invoked.
AllowListNonEmptyFilters ==
    StrategiesChosen =>
      IF enabled_strategies # None /\ enabled_strategies[1] # {}
      THEN Invoked = RegisteredIn(enabled_strategies[1])
      ELSE Invoked = _REGISTRY(regime)

\* an allow-list without the regime's strategy: nothing was invoked
AllowListExcludesAll ==
    /\ epc = "done" /\ ~use_mock /\ regime = "TREND_UP"
    /\ enabled_strategies = Some({"RangeReversion", "NoSuchStrategy"})
    /\ Invoked = <<>>

(* ================== properties of the /backtest handler ================ *)
\* C13: run_backtest raises the data-unavailable error exactly when no row
\* is left after the indicators and dropna, and then produces no result;
\* the handler answers 400 and persists no backtest record.
NoBarsNoBacktest ==
    /\ pc \in {"loop", "done", "error", "raised"} =>
         ((pc = "error") <=> (n = 0))
    /\ pc = "error" =>
         /\ result = None
         /\ apc = "responded" => (response = Some(400) /\ backtests = <<>>)

\* a request for a range without usable bars was answered
EmptyRangeAnswered ==
    /\ pc = "error" /\ n = 0 /\ result = None
    /\ apc = "responded" /\ response = Some(400) /\ backtests = <<>>

\* C14: a strategy name that does not exist is rejected with an error: the
\* backtest request naming it is answered 400 with nothing simulated and
\* nothing persisted, and a generate_signal call whose allow-list holds it
\* does not return normally.
UnknownStrategyRejected ==
    /\ (apc = "responded" /\ strategy \notin STRATEGY_MAP) =>
         (response = Some(400) /\ pc = "start" /\ backtests = <<>>)
    /\ (enabled_strategies # None
        /\ enabled_strategies[1] \ STRATEGY_MAP # {}) => epc # "done"

(* ================= properties of compute_trend_direction ============== *)
LastBar == df[Len(df)]
StackedUp == LastBar.ema20 > LastBar.ema50 /\ LastBar.ema50 > LastBar.ema200
StackedDown == LastBar.ema20 < LastBar.ema50 /\ LastBar.ema50 < LastBar.ema200

UpConditions ==
    /\ StackedUp
    /\ FLess(Frac(15, 10000), ema20_slope)
    /\ FLess(Frac(5, 10000), ema50_slope)
    /\ LastBar.close > LastBar.ema20

DownConditions ==
    /\ StackedDown
    /\ FLess(ema20_slope, Frac(-15, 10000))
    /\ FLess(ema50_slope, Frac(-5, 10000))
    /\ LastBar.close < LastBar.ema20

\* C16: the classifier returns TREND_UP exactly when short > medium > long
\* average, short slope > 0.0015, medium slope > 0.0005 and close > short
\* average; it returns TREND_DOWN exactly when TREND_UP does not apply and
\* short < medium < long, short slope < -0.0015, medium slope < -0.0005 and
\* close < short average.
TrendExactlyWhen ==
    cpc = "done" =>
      /\ (detected = Some("TREND_UP")) <=> UpConditions
      /\ (detected = Some("TREND_DOWN")) <=> (~UpConditions /\ DownConditions)

\* a falling window longer than both slope lookbacks classified TREND_DOWN
FallingWindowTrendDown ==
    /\ cpc = "done" /\ detected = Some("TREND_DOWN")
    /\ Len(df) > Ema50SlopeWindow
    /\ FLess(ema20_slope, Zero) /\ FLess(ema50_slope, Zero)

\* the trailing closes and their range as a fraction of their mean
TrailingCloses ==
    [i \in 1..Min(Len(df), RangeWindow) |->
        df[Len(df) - Min(Len(df), RangeWindow) + i].close]
TrailingRange ==
    OverFloored(Frac(SeqMax(TrailingCloses) - SeqMin(TrailingCloses), 1),
                SeqMean(TrailingCloses))

SlopesNearZero ==
    /\ FLess(FAbs(ema20_slope), Frac(1, 1000))
    /\ FLess(FAbs(ema50_slope), Frac(8, 10000))

CloseNearMedium ==
    FLess(OverFloored(Frac(Abs(LastBar.close - LastBar.ema50), 1),
                      Frac(LastBar.ema50, 1)),
          Frac(2, 100))

\* C17 as claimed: slopes near zero (|short| < 0.001, |medium| < 0.0008)
\* and trailing close range under 5% of the mean close give RANGE.
RangeWhenFlat ==
    (cpc = "done" /\ SlopesNearZero /\ FLess(TrailingRange, Frac(5, 100)))
        => detected = Some("RANGE")

\* C17 amended: slopes near zero, trailing close range under 5% of the mean
\* close, at least 20 bars in the window and the close within 2% of the
\* medium average give RANGE.
RangeWhenFlatNearMedium ==
    (cpc = "done" /\ SlopesNearZero /\ FLess(TrailingRange, Frac(5, 100))
     /\ Len(df) >= MinRangeBars /\ CloseNearMedium)
        => detected = Some("RANGE")

\* a flat window of just MinRangeBars bars classified RANGE
ShortestRange ==
    /\ cpc = "done" /\ detected = Some("RANGE")
    /\ Len(df) = MinRangeBars
    /\ SlopesNearZero /\ CloseNearMedium

RangeConditions ==
    /\ Len(df) >= MinRangeBars
    /\ SlopesNearZero
    /\ FLess(TrailingRange, Frac(5, 100))
    /\ CloseNearMedium

\* C18: on a non-empty window with the indicator fields the classifier
\* returns TREND_UP, TREND_DOWN, RANGE or CHOPPY, never UNKNOWN or BREAKOUT,
\* and CHOPPY whenever neither the trend nor the range conditions hold.
NeverUnknown ==
    cpc = "done" =>
      /\ detected \in {Some(r) : r \in DetectedRegimes}
      /\ (~UpConditions /\ ~DownConditions /\ ~RangeConditions)
            => detected = Some("CHOPPY")

\* a single bar, slopes defaulted to 0, classified CHOPPY
SingleBarChoppy ==
    cpc = "done" /\ Len(df) = 1 /\ detected = Some("CHOPPY")

\* the slope of a column over its last w rows, or all rows if fewer
SlopeStart(w) == IF Len(df) > w THEN Len(df) - w + 1 ELSE 1
SlopeOver(field, w) ==
    IF df[SlopeStart(w)][field] = 0 THEN Zero
    ELSE Frac(LastBar[field] - df[SlopeStart(w)][field],
              df[SlopeStart(w)][field])

\* C19 as claimed: a window of fewer than 25 bars gives a short slope of 0
\* and one of fewer than 35 bars a medium slope of 0; a slope is 0 when the
\* start value of its sub-window is 0 and else (end - start) / start.
SlopeZeroBelowLookback ==
    cpc = "done" =>
      /\ ema20_slope = IF Len(df) < Ema20SlopeWindow THEN Zero
                       ELSE SlopeOver("ema20", Ema20SlopeWindow)
      /\ ema50_slope = IF Len(df) < Ema50SlopeWindow THEN Zero
                       ELSE SlopeOver("ema50", Ema50SlopeWindow)

\* C19 amended: a window of fewer than 2 bars gives slopes of 0; otherwise
\* a slope is taken over the last 25 (short) or 35 (medium) bars of the
\* window, over all of them when there are fewer, and is 0 when the start
\* value is 0 and else (end - start) / start.
SlopeZeroBelowTwoBars ==
    cpc = "done" =>
      /\ ema20_slope = IF Len(df) < 2 THEN Zero
                       ELSE SlopeOver("ema20", Ema20SlopeWindow)
      /\ ema50_slope = IF Len(df) < 2 THEN Zero
                       ELSE SlopeOver("ema50", Ema50SlopeWindow)

\* two bars, shorter than both lookbacks, with slopes other than 0
TwoBarSlope ==
    /\ cpc = "done" /\ Len(df) = 2
    /\ ema20_slope # Zero /\ ema50_slope # Zero

(* ===================== properties of the strategies ==================== *)
\* C20: a strategy called with a regime outside its declared regimes
\* abstains whatever the frame (it returns None and does not raise): trend
\* continuation for every regime but TREND_UP, range reversion for every
\* regime but RANGE.
AbstainsOutsideRegime ==
    \A i \in DOMAIN calls :
      /\ (calls[i].name = "TrendContinuation" /\ regime # "TREND_UP")
            => calls[i].outcome = Returned(None)
      /\ (calls[i].name = "RangeReversion" /\ regime # "RANGE")
            => calls[i].outcome = Returned(None)

\* both strategies abstained on an empty frame in a regime of neither
BothAbstainOnEmptyFrame ==
    /\ regime = "BREAKOUT" /\ rows = 0
    /\ Invoked = <<"TrendContinuation", "RangeReversion">>
    /\ \A i \in DOMAIN calls : calls[i].outcome = Returned(None)

\* the trailing RangeLookback rows of the frame given to the strategy
TrailingRows == SeqTail(sdf, RangeLookback)
TrailingHigh == SeqMax(Column(TrailingRows, "high"))
TrailingLow == SeqMin(Column(TrailingRows, "low"))
RangeHeight == TrailingHigh - TrailingLow
LatestClose == sdf[Len(sdf)].close
Oscillator == sdf[Len(sdf)].rsi14

\* the range height is positive and at most 8% of the mean close
HeightWithinCeiling ==
    /\ RangeHeight > 0
    /\ FLeq(Frac(RangeHeight, 1),
            FMul(Frac(8, 100), SeqMean(Column(TrailingRows, "close"))))

InSupportZone ==
    /\ 1000 * LatestClose >= 995 * TrailingLow
    /\ 100 * LatestClose <= 101 * TrailingLow

InResistanceZone ==
    /\ 100 * LatestClose >= 99 * TrailingHigh
    /\ 1000 * LatestClose <= 1005 * TrailingHigh

Emitted(action) == proposal # None /\ proposal[1].action = action

RangeReversionCalled ==
    spc \in {"returned", "raised"} /\ sname = "RangeReversion"

\* C21: under regime RANGE, with a positive trailing range height of at
\* most 8% of the mean close, range reversion emits BUY exactly when the
\* close is in the support zone [low*0.995, low*1.01] and the oscillator is
\* below 38, otherwise SELL exactly when the close is in the resistance zone
\* [high*0.99, high*1.005] and the oscillator is above 62, otherwise it
\* abstains; with a range height that is not positive or is above the
\* ceiling it abstains.
RangeReversionDecision ==
    (RangeReversionCalled /\ sregime = "RANGE") =>
      /\ spc = "returned"
      /\ IF ~HeightWithinCeiling THEN proposal = None
         ELSE IF InSupportZone /\ Oscillator < 38 THEN Emitted("BUY")
         ELSE IF InResistanceZone /\ Oscillator > 62 THEN Emitted("SELL")
         ELSE proposal = None

\* a SELL at the lower bound of the resistance zone, the close being
\* outside the support zone
SellAtResistance ==
    /\ RangeReversionCalled /\ sregime = "RANGE"
    /\ Emitted("SELL") /\ ~InSupportZone
    /\ Len(sdf) > RangeLookback

TrendContinuationCalled ==
    spc \in {"returned", "raised"} /\ sname = "TrendContinuation"

LatestRow == sdf[Len(sdf)]

\* closes strictly increasing over at least two bars
StrictUptrend ==
    /\ Len(sdf) >= 2
    /\ \A i \in 1..(Len(sdf) - 1) : sdf[i].close < sdf[i + 1].close

AveragesStackedUp ==
    LatestRow.ema20 > LatestRow.ema50 /\ LatestRow.ema50 > LatestRow.ema200

InPullbackBand ==
    /\ 1000 * LatestRow.close >= 985 * Min(LatestRow.ema20, LatestRow.ema50)
    /\ 100 * LatestRow.close <= 103 * LatestRow.ema20

HealthyOscillator == 50 <= LatestRow.rsi14 /\ LatestRow.rsi14 <= 68

\* the same frame with a higher last short average: a steeper slope
SteeperFrame ==
    [i \in 1..Len(sdf) |->
        IF i = Len(sdf) THEN [sdf[i] EXCEPT !.ema20 = @ + 7] ELSE sdf[i]]

\* BUY, confidence at most 0.9, two take-profits in increasing order
WellFormedTrendProposal(sig) ==
    /\ sig.action = "BUY"
    /\ FLeq(sig.confidence_score, Frac(90, 1))
    /\ Len(sig.take_profits[1]) = 2
    /\ FLess(sig.take_profits[1][1], sig.take_profits[1][2])

\* C22: every proposal of trend continuation is a BUY with a confidence of
\* at most 0.9 that does not decrease when the short-average slope grows,
\* and two take-profits, the first below the second; and on a strictly
\* rising window under TREND_UP with the averages stacked up, the close in
\* the pullback band and the oscillator in [50, 68] the strategy emits
\* such a proposal.
TrendContinuationProposes ==
    TrendContinuationCalled =>
      /\ proposal # None =>
           /\ WellFormedTrendProposal(proposal[1])
           /\ LET steeper == TrendContinuationStrategy(SteeperFrame, sregime)
              IN  steeper.signal # None =>
                    FLeq(proposal[1].confidence_score,
                         steeper.signal[1].confidence_score)
      /\ (sregime = "TREND_UP" /\ StrictUptrend /\ AveragesStackedUp
          /\ InPullbackBand /\ HealthyOscillator) =>
           (spc = "returned" /\ proposal # None)

\* every signal constructed so far: the proposal and the answered signal
ConstructedSignals ==
    (IF proposal = None THEN {} ELSE {proposal[1]})
      \cup (IF signal = None THEN {} ELSE {signal[1]})

CarriesNothing(sig) ==
    sig.entry_zone = None /\ sig.stop_loss = None /\ sig.take_profits = None

CarriesAll(sig) ==
    sig.entry_zone # None /\ sig.stop_loss # None /\ sig.take_profits # None

\* C23: every constructed signal with action NO_TRADE has no entry zone, no
\* stop-loss and no take-profit list, and every constructed signal with
\* action BUY or SELL carries all three.
NoTradeCarriesNoLevels ==
    \A sig \in ConstructedSignals :
        /\ sig.action = "NO_TRADE" => CarriesNothing(sig)
        /\ sig.action \in {"BUY", "SELL"} => CarriesAll(sig)

\* the API answered NO_TRADE after a strategy abstained
NoTradeAnswered ==
    /\ spc = "answered"
    /\ proposal = None
    /\ signal # None
    /\ signal[1].action = "NO_TRADE"

\* C24: no step of a signal generation or of a backtest changes the
\* registry or the shared strategy instances, and under every interleaving
\* a finished invocation has the result it has when run alone on its bars.
SharedStateUntouched ==
    /\ registry = InitialRegistry
    /\ instances = InitialInstances
    /\ \A i \in Invocations :
         inv[i].pc = "done" => inv[i].result = Solo(inv[i].in)

\* two signal generations on the same rising frame both ended with a BUY
BothSignalled ==
    /\ \A i \in Invocations :
         /\ inv[i].pc = "done"
         /\ inv[i].in.kind = "signal"
         /\ inv[i].in.frame = CcTrendFrame
         /\ inv[i].result # None
         /\ inv[i].result[1].action = "BUY"

\* (exit - entry) / entry * direction of the j-th closed trade
TradeReturn(j) ==
    Frac((exits[j].price - entries[j].price) * entries[j].direction,
         entries[j].price)

\* the product of (1 + return) over the first j closed trades
RECURSIVE EquityAfter(_)
EquityAfter(j) ==
    IF j = 0 THEN One ELSE FMul(EquityAfter(j - 1), FAdd(One, trades[j]))

\* the maximum of 1 and every equity reached by the first j closed trades
RECURSIVE PeakAfter(_)
PeakAfter(j) ==
    IF j = 0 THEN One ELSE FMax(PeakAfter(j - 1), EquityAfter(j))

\* the largest (peak - equity) / peak after each of the first j closes
RECURSIVE DrawdownAfter(_)
DrawdownAfter(j) ==
    IF j = 0 THEN Zero
    ELSE FMax(DrawdownAfter(j - 1),
              FDiv(FSub(PeakAfter(j), EquityAfter(j)), PeakAfter(j)))

\* the books after the closes so far
EquityBooks ==
    /\ Len(exits) = Len(trades)
    /\ \A j \in 1..Len(trades) : trades[j] = TradeReturn(j)
    /\ equity = EquityAfter(Len(trades))
    /\ peak_equity = PeakAfter(Len(trades))
    /\ FLeq(equity, peak_equity)
    /\ max_drawdown = DrawdownAfter(Len(trades))
    /\ FLeq(Zero, max_drawdown)

\* C25: after every closed trade the trade's return is
\* (exit - entry) / entry * direction, equity is the product of
\* (1 + return) over the closed trades, peak equity is the maximum of 1 and
\* every equity reached, so at least the equity, and max drawdown is the
\* largest (peak - equity) / peak seen, so non-negative, and no step makes
\* it smaller.
EquityBookkeeping ==
    /\ []EquityBooks
    /\ [][FLeq(max_drawdown, max_drawdown')]_vars

\* a gain lifted the peak above 1 and a later loss left a drawdown
GainThenLoss ==
    /\ Len(trades) >= 2
    /\ FLess(Zero, trades[1])
    /\ FLess(trades[2], Zero)
    /\ FLess(One, peak_equity)
    /\ FLess(equity, peak_equity)
    /\ FLess(Zero, max_drawdown)

\* the position a signal opens at the close of the observed bar
OpenedOnObservedBar ==
    [direction |-> IF ObsSig[1].action = "BUY" THEN 1 ELSE -1,
     entry_price |-> ObsRow.close,
     take_profit |-> IF ObsSig[1].take_profits # <<>>
                     THEN Some(ObsSig[1].take_profits[1])
                     ELSE None,
     stop_loss |-> ObsSig[1].stop_loss]

\* C26: when a position is closed by the per-bar checks of a bar on which
\* the strategy's action is BUY or SELL, a new position in the signal's
\* direction is opened on that bar at the bar's close; so an exit caused by
\* an opposing signal reverses the position on the same bar.
ReentersOnExitBar ==
    obs # None =>
      /\ (CheckedExits # <<>> /\ ObsSig # None
          /\ ObsSig[1].action \in {"BUY", "SELL"}) =>
           /\ Len(entries) = 2
           /\ entries[2] = [bar |-> k - 1, price |-> ObsRow.close,
                            direction |-> OpenedOnObservedBar.direction]
           /\ pc = "loop" => position = Some(OpenedOnObservedBar)
      /\ (~StopCrossed /\ ~TargetCrossed /\ OpposingSignal) =>
           /\ CheckedExitAt(ObsRow.close)
           /\ Len(entries) = 2
           /\ entries[2].bar = k - 1
           /\ entries[2].direction = -ObsPos.direction
           /\ pc = "loop" =>
                (position # None
                 /\ position[1].direction = -ObsPos.direction
                 /\ position[1].entry_price = ObsRow.close)

\* a long closed by a SELL, neither stop nor target crossed, and a short
\* open at the same close
LongReversedToShort ==
    /\ obs # None /\ pc = "loop"
    /\ ObsPos.direction = 1
    /\ ~StopCrossed /\ ~TargetCrossed /\ OpposingSignal
    /\ position # None /\ position[1].direction = -1
    /\ position[1].entry_price = ObsRow.close

\* the trades closed before the last one
EarlierTrades == SubSeq(trades, 1, Len(trades) - 1)

\* the last position was opened on the final bar
EnteredOnFinalBar == entries # <<>> /\ entries[Len(entries)].bar = n - 1

\* C27: no position is closed by the stop-loss, take-profit or
\* opposing-signal checks of the bar it was opened on: a checked exit is on
\* a later bar than its entry, the forced close on the final bar; so a
\* position opened on the final bar is closed by the forced close at its
\* entry price, as a trade of return 0 that counts as a trade but neither
\* as a win nor as a loss.
NoExitOnEntryBar ==
    /\ \A j \in DOMAIN exits :
         IF exits[j].forced
         THEN exits[j].bar = n - 1 /\ entries[j].bar <= n - 1
         ELSE exits[j].bar > entries[j].bar
    /\ (pc = "done" /\ EnteredOnFinalBar) =>
         /\ Len(exits) = Len(entries)
         /\ exits[Len(exits)].forced
         /\ exits[Len(exits)].price = entries[Len(entries)].price
         /\ trades[Len(trades)] = Zero
         /\ result[1].trades_count = Len(EarlierTrades) + 1
         /\ result[1].win_rate =
                Frac(Wins(EarlierTrades) * 100, Len(trades))
         /\ result[1].profit_factor = profit_factor(EarlierTrades)
         /\ result[1].total_return_pct =
                FMul(FSub(EquityAfter(Len(trades) - 1), One), Hundred)

\* a position opened on the final bar after a winning trade and closed by
\* the forced close: two trades, one win
FinalBarEntryBreaksEven ==
    /\ pc = "done" /\ EnteredOnFinalBar
    /\ Len(trades) = 2
    /\ FLess(Zero, trades[1])
    /\ trades[2] = Zero
    /\ result[1].win_rate = Frac(50, 1)
    /\ exits[2].forced

\* the bar just processed found a position open and none of the exit
\* conditions true
NoExitCondition ==
    /\ obs # None
    /\ obs[1].position # None
    /\ ~StopCrossed /\ ~TargetCrossed /\ ~OpposingSignal

\* C28: a bar processed with a position open and no exit condition true
\* leaves the position (direction, entry price, stop-loss, take-profit) as
\* it was whatever the strategy emitted, and the equity, the peak equity,
\* the max drawdown and the trade list as well.
HoldsThroughQuietBar ==
    [][(k' = k + 1 /\ NoExitCondition') =>
          /\ position' = position
          /\ position' = obs'[1].position
          /\ trades' = trades
          /\ equity' = equity
          /\ peak_equity' = peak_equity
          /\ max_drawdown' = max_drawdown
          /\ entries' = entries
          /\ exits' = exits]_vars

\* a long held through a bar on which the strategy emitted BUY with other
\* levels, after a first trade closed at a loss
HeldThroughSameDirectionSignal ==
    /\ pc = "loop" /\ NoExitCondition
    /\ ObsPos.direction = 1
    /\ ObsSig # None /\ ObsSig[1].action = "BUY"
    /\ ObsSig[1].stop_loss # ObsPos.stop_loss
    /\ position = obs[1].position
    /\ Len(trades) = 1 /\ FLess(equity, One)

\* C29: in non-demo mode generate_signal returns a signal only when the
\* detected regime is TREND_UP, then a BUY of trend continuation, or RANGE,
\* then a BUY or a SELL of range reversion; when the detected regime is
\* TREND_DOWN or CHOPPY it returns None, although the registry lists a
\* strategy for those regimes.
SignalsOnlyInTrendUpOrRange ==
    (epc = "done" /\ ~use_mock) =>
      /\ ret # None =>
           \/ /\ regime = "TREND_UP"
              /\ ret[1].action = "BUY"
              /\ ret[1].strategy_name = "TrendContinuation"
           \/ /\ regime = "RANGE"
              /\ ret[1].action \in {"BUY", "SELL"}
              /\ ret[1].strategy_name = "RangeReversion"
      /\ regime \in {"TREND_DOWN", "CHOPPY"} =>
           /\ _REGISTRY(regime) # <<>>
           /\ ret = None

\* range reversion was invoked under CHOPPY and the call returned None
ChoppyInvokesButAbstains ==
    /\ epc = "done" /\ ~use_mock
    /\ regime = "CHOPPY"
    /\ Invoked = <<"RangeReversion">>
    /\ ret = None

LatestCloseOf == Frac(sdf[Len(sdf)].close, 1)

\* C30: on bars with positive prices every BUY proposal of a strategy or of
\* the demo fallback has its stop-loss strictly below the latest close and
\* every take-profit strictly above it, every SELL proposal has its
\* stop-loss strictly above the latest close and its take-profit strictly
\* below it, and the low bound of the entry zone is at most the high bound.
LevelsBracketClose ==
    (spc \in {"returned", "answered"} /\ proposal # None) =>
      LET sig == proposal[1]
          stop == sig.stop_loss[1]
          targets == sig.take_profits[1]
          zone == sig.entry_zone[1]
      IN  /\ sig.action = "BUY" =>
               /\ FLess(stop, LatestCloseOf)
               /\ \A i \in DOMAIN targets : FLess(LatestCloseOf, targets[i])
          /\ sig.action = "SELL" =>
               /\ FLess(LatestCloseOf, stop)
               /\ \A i \in DOMAIN targets : FLess(targets[i], LatestCloseOf)
          /\ FLeq(zone[1], zone[2])

\* a BUY of trend continuation whose stop is the swing low less the buffer,
\* lower than 97% of the close
StopBelowSwingLow ==
    /\ TrendContinuationCalled
    /\ proposal # None
    /\ FLess(proposal[1].stop_loss[1], Scaled(sdf[Len(sdf)].close, 97, 100))

====
